---- MODULE Spec2Model ----
(***************************************************************************)
(* SSHFerry: task scheduler (src/core/scheduler.py), path sandbox          *)
(* (src/shared/paths.py), SFTP engine (src/engines/sftp_engine.py) and     *)
(* chunk-parallel engine (src/engines/parallel_sftp_engine.py).            *)
(*                                                                         *)
(* One module, several specifications:                                     *)
(*   Spec          the scheduler: control operations, dispatcher, workers  *)
(*   SpecPath      normalize_remote_path / ensure_in_sandbox on inputs     *)
(*   SpecEngine    SftpEngine operations against a recording SFTP client   *)
(*   SpecParallel  ParallelSftpEngine.upload_file / download_file          *)
(* Variables of a component that a specification does not exercise stay    *)
(* at their idle value.                                                    *)
(***************************************************************************)
EXTENDS Integers, Sequences, FiniteSets, TLC

VARIABLES
    \* ---- scheduler (TaskScheduler) ----
    running,      \* self.running: the dispatcher thread is started
    tasks,        \* self.tasks: task id -> Task
    task_queue,   \* self.task_queue: FIFO of task ids
    queued_task_ids, \* self.queued_task_ids
    popped,       \* id the dispatcher has taken with task_queue.get() (0 = none)
    dpc,          \* dispatcher position: "get", "got" (id taken), "looked" (id discarded, task looked up)
    execs,        \* executions submitted to self.executor, in submission order
    nruns,        \* number of executions submitted so far (bounded by MaxRuns)
    dstSize,      \* size of each single-file task's destination file (0 = absent or empty)
    dstFiles,     \* for each folder task, the files already complete at the destination
    ret,          \* the control operation that produced this state and what it returned
    \* ---- path sandbox inputs ----
    pPath, pRoot, \* the arguments drawn
    pOut,         \* "ok" when ensure_in_sandbox returned, "VALIDATION_FAILED" when it raised
    pNorm,        \* what normalize_remote_path returned for pPath (<<>> = not called)
    \* ---- SftpEngine ----
    eRoot,        \* site_config.remote_root
    eConnected,   \* is_connected()
    eCall,        \* the last operation called: <<name, path arguments>>
    eWire,        \* calls that operation made on self.sftp_client, in order
    eOutcome,     \* "ok" when it returned, else the ErrorCode of what it raised
    \* ---- ParallelSftpEngine transfer ----
    xDir,         \* "upload" or "download"
    xSize,        \* file_size of the source
    xPhase,       \* position of the calling thread: "idle", "called", "running", "finished"
    xDest,        \* bytes of the destination file
    chunk_queue,  \* queue: (offset, length) chunks waiting for a worker
    xWorkers,     \* the worker_loop threads: position and the chunk each holds
    bytes_transferred, completed_chunks, chunk_failures, interrupt_event, last_error,
    connect_failures,
    xInterrupt,   \* what check_interrupt does when polled: "none", "cancel", "pause"
    xResult,      \* "returned", or the exception the call raised
    \* ---- MetricsCollector ----
    records,      \* self.records: TransferRecords, oldest first
    current_preset, last_preset_change,
    now,          \* what time.time() returns
    mFile,        \* the file at store_path: whether it exists and what _save last wrote
    mRet,         \* the last call on the collector and what it returned
    \* ---- SiteStore ----
    sSites,       \* the list of SiteConfig objects handed to save
    sFile,        \* the file at self.path: whether it exists and the JSON document in it
    sLoaded,      \* whether load was called and the list it returned
    \* ---- ParallelSftpEngine: adaptive host worker cap ----
    _host_worker_caps, \* the class dict: host key -> cap, shared by all engine instances
    cEng,         \* the engine instances: their settings and the launch loop's locals
    \* ---- task_state ----
    tCurrent, tTarget, \* the arguments of the call
    tOp,          \* the function called: "none", "is_valid_transition", "assert_transition"
    tOut,         \* what it returned or raised
    \* ---- ConnectionChecker._check_remote_root_readable ----
    kPc,          \* position in the method: "idle", "connected", "probed", "closed", "returned"
    kEvents,      \* what happened to the engine's session in this call: "connect", "disconnect"
    kProbe,       \* what check_path_readable did: "none", "True", "False" or the exception raised
    kResult,      \* the CheckResult returned
    kOpen,        \* sessions opened by the checker and not closed
    kRuns,        \* calls of the method so far
    \* ---- ParallelSftpEngine: progress reports ----
    xCallback,    \* whether the caller supplied a progress callback
    last_reported,
    report_value, \* per worker: the value it is about to pass to the callback
    xReported,    \* the values the callback has received, in the order of the calls
    xConnected,   \* history: the workers that connected and opened their files
    xRequested,   \* history: whether an interrupt was ever requested
    \* ---- MetricsCollector: history ----
    mHistory      \* history: every record passed to record(), in call order

schedVars == <<running, tasks, task_queue, queued_task_ids, popped, dpc, execs, nruns,
               dstSize, dstFiles, ret>>
pathVars == <<pPath, pRoot, pOut, pNorm>>
engVars == <<eRoot, eConnected, eCall, eWire, eOutcome>>
parVars == <<xDir, xSize, xPhase, xDest, chunk_queue, xWorkers, bytes_transferred,
             completed_chunks, chunk_failures, interrupt_event, last_error,
             connect_failures, xInterrupt, xResult>>
metVars == <<records, current_preset, last_preset_change, now, mFile, mRet>>
storeVars == <<sSites, sFile, sLoaded>>
capVars == <<_host_worker_caps, cEng>>
tsVars == <<tCurrent, tTarget, tOp, tOut>>
ckVars == <<kPc, kEvents, kProbe, kResult, kOpen, kRuns>>
progVars == <<xCallback, last_reported, report_value, xReported, xConnected, xRequested>>
histVars == <<mHistory>>
vars == <<schedVars, pathVars, engVars, parVars, metVars, storeVars, capVars, tsVars, ckVars, progVars, histVars>>

----------------------------------------------------------------------------
(* Bounds *)

MaxTasks == 1      \* task ids 1..MaxTasks
MaxRuns == 2       \* executions submitted to the worker pool in one behaviour
NFiles == 2        \* files in a folder task, each of FileUnit bytes

(* Program constants *)
max_workers == 3   \* TaskScheduler.__init__ default

(* Sizes used for the modelled files *)
FileSize == 2      \* bytes of a single-file task's source, sent one byte per chunk
FileUnit == 1      \* bytes of each file of a folder task

TaskIds == 1..MaxTasks

Statuses == {"pending", "running", "paused", "done", "failed", "canceled", "skipped"}

TransferKinds == {"upload", "download", "folder_upload", "folder_download"}
FolderKinds == {"folder_upload", "folder_download"}
SimpleKinds == {"delete", "mkdir", "rename"}
Kinds == TransferKinds \cup SimpleKinds

(* (kind, engine) pairs the task factories of the scheduler produce *)
KindEngines ==
    {<<k, "sftp">> : k \in Kinds} \cup {<<"upload", "parallel">>, <<"download", "parallel">>}

----------------------------------------------------------------------------
(* task_state.TRANSITIONS, and the legal set of the state machine with the
   skipped state and restart. *)

TRANSITIONS ==
    [s \in {"pending", "running", "paused", "done", "failed", "canceled"} |->
        CASE s = "pending" -> {"running", "canceled"}
          [] s = "running" -> {"done", "failed", "paused", "canceled"}
          [] s = "paused" -> {"running", "canceled"}
          [] OTHER -> {}]

is_valid_transition(current, target) ==
    IF current \in DOMAIN TRANSITIONS THEN target \in TRANSITIONS[current] ELSE FALSE

----------------------------------------------------------------------------
(* Task (shared/models.py) as the factories create it. *)

NewTask(kind, engine) ==
    [kind |-> kind, engine |-> engine,
     bytes_total |-> IF kind \in FolderKinds THEN NFiles * FileUnit
                     ELSE IF kind \in SimpleKinds THEN 0 ELSE FileSize,
     bytes_done |-> 0, status |-> "pending",
     error_code |-> "none", error_message |-> "none",
     start_time |-> "none", speed |-> 0,
     interrupted |-> FALSE, paused |-> FALSE, skipped |-> FALSE,
     subtask_count |-> IF kind \in FolderKinds THEN NFiles ELSE 0,
     subtask_done |-> 0]

NoRet == [op |-> "none", id |-> 0, ok |-> FALSE]
Ret(op, t, ok) == [op |-> op, id |-> t, ok |-> ok]

NewExec(t) ==
    [id |-> t, pc |-> "submitted", sent |-> 0, idx |-> 0, lost |-> "none", ended |-> "none"]

Count(seq, x) == Cardinality({i \in DOMAIN seq : seq[i] = x})

RemoveAt(seq, i) == [j \in 1..(Len(seq) - 1) |-> IF j < i THEN seq[j] ELSE seq[j + 1]]

SchedInit ==
    /\ running = FALSE
    /\ tasks = <<>>
    /\ task_queue = <<>>
    /\ queued_task_ids = {}
    /\ popped = 0
    /\ dpc = "get"
    /\ execs = <<>>
    /\ nruns = 0
    /\ dstSize = [t \in TaskIds |-> 0]
    /\ dstFiles = [t \in TaskIds |-> {}]
    /\ ret = NoRet

----------------------------------------------------------------------------
(* Scheduler: control operations.  Each runs under self.task_lock. *)

NotSched == UNCHANGED <<pathVars, engVars, parVars, storeVars, capVars, tsVars, ckVars, progVars, histVars>>

NoRecord == UNCHANGED metVars

Known(t) == t \in DOMAIN tasks

SetTask(t, r) == [tasks EXCEPT ![t] = r]

(* the enqueue without the test of queued_task_ids *)
Requeue_NoDedupe(t) ==
    /\ task_queue' = Append(task_queue, t)
    /\ queued_task_ids' = queued_task_ids \cup {t}

(* the shared tail of add/resume/restart: enqueue the id unless it is in
   queued_task_ids *)
Requeue(t) ==
    IF t \notin queued_task_ids
    THEN /\ task_queue' = Append(task_queue, t)
         /\ queued_task_ids' = queued_task_ids \cup {t}
    ELSE UNCHANGED <<task_queue, queued_task_ids>>

Start ==
    /\ ~running
    /\ running' = TRUE
    /\ ret' = NoRet
    /\ UNCHANGED <<tasks, task_queue, queued_task_ids, popped, dpc, execs, nruns, dstSize, dstFiles>>
    /\ NotSched /\ NoRecord

(* add_task with a freshly created task; the destination of a single-session
   transfer may already hold a file of any size up to one byte more than the
   source *)
AddTask(t, ke, d) ==
    /\ ~Known(t)
    /\ tasks' = [x \in DOMAIN tasks \cup {t} |->
                    IF x = t THEN NewTask(ke[1], ke[2]) ELSE tasks[x]]
    /\ Requeue(t)
    /\ dstSize' = [dstSize EXCEPT ![t] = IF ke[1] \in {"upload", "download"} /\ ke[2] = "sftp"
                                        THEN d ELSE 0]
    /\ ret' = Ret("add", t, TRUE)
    /\ UNCHANGED <<running, popped, dpc, execs, nruns, dstFiles>>
    /\ NotSched /\ NoRecord

(* add_task called again with a task object the map already holds *)
ReAddTask(t) ==
    /\ Known(t)
    /\ Requeue(t)
    /\ ret' = Ret("add", t, TRUE)
    /\ UNCHANGED <<running, tasks, popped, dpc, execs, nruns, dstSize, dstFiles>>
    /\ NotSched /\ NoRecord

CancelTask(t) ==
    /\ IF ~Known(t)
       THEN /\ ret' = Ret("cancel", t, FALSE)
            /\ UNCHANGED tasks
       ELSE IF tasks[t].status \in {"pending", "paused"}
       THEN /\ tasks' = SetTask(t, [tasks[t] EXCEPT !.status = "canceled"])
            /\ ret' = Ret("cancel", t, TRUE)
       ELSE IF tasks[t].status = "running"
       THEN /\ tasks' = SetTask(t, [tasks[t] EXCEPT !.interrupted = TRUE])
            /\ ret' = Ret("cancel", t, TRUE)
       ELSE /\ ret' = Ret("cancel", t, FALSE)
            /\ UNCHANGED tasks
    /\ UNCHANGED <<running, task_queue, queued_task_ids, popped, dpc, execs, nruns, dstSize, dstFiles>>
    /\ NotSched /\ NoRecord

PauseSets_SetsStatus(r) == [r EXCEPT !.paused = TRUE, !.status = "paused"]

PauseSets(r) == [r EXCEPT !.paused = TRUE]

PauseTask(t) ==
    /\ IF Known(t) /\ tasks[t].status = "running"
       THEN /\ tasks' = SetTask(t, PauseSets(tasks[t]))
            /\ ret' = Ret("pause", t, TRUE)
       ELSE /\ ret' = Ret("pause", t, FALSE)
            /\ UNCHANGED tasks
    /\ UNCHANGED <<running, task_queue, queued_task_ids, popped, dpc, execs, nruns, dstSize, dstFiles>>
    /\ NotSched /\ NoRecord

ResumeTask(t) ==
    /\ IF Known(t) /\ tasks[t].status = "paused"
       THEN /\ tasks' = SetTask(t, [tasks[t] EXCEPT !.status = "pending", !.paused = FALSE])
            /\ Requeue(t)
            /\ ret' = Ret("resume", t, TRUE)
       ELSE /\ ret' = Ret("resume", t, FALSE)
            /\ UNCHANGED <<tasks, task_queue, queued_task_ids>>
    /\ UNCHANGED <<running, popped, dpc, execs, nruns, dstSize, dstFiles>>
    /\ NotSched /\ NoRecord

RestartResets_KeepsFlags(r) ==
    [r EXCEPT !.status = "pending", !.bytes_done = 0, !.speed = 0,
              !.error_code = "none", !.error_message = "none", !.start_time = "none"]

RestartResets(r) ==
    [r EXCEPT !.status = "pending", !.bytes_done = 0, !.speed = 0,
              !.error_code = "none", !.error_message = "none", !.start_time = "none",
              !.interrupted = FALSE, !.paused = FALSE, !.skipped = FALSE]

(* restart_task accepting a paused task as well *)
RestartTask_AcceptsPaused(t) ==
    /\ IF Known(t) /\ tasks[t].status \in {"failed", "canceled", "done", "skipped", "paused"}
       THEN /\ tasks' = SetTask(t, RestartResets(tasks[t]))
            /\ Requeue(t)
            /\ ret' = Ret("restart", t, TRUE)
       ELSE /\ ret' = Ret("restart", t, FALSE)
            /\ UNCHANGED <<tasks, task_queue, queued_task_ids>>
    /\ UNCHANGED <<running, popped, dpc, execs, nruns, dstSize, dstFiles>>
    /\ NotSched /\ NoRecord

RestartTask(t) ==
    /\ IF Known(t) /\ tasks[t].status \in {"failed", "canceled", "done", "skipped"}
       THEN /\ tasks' = SetTask(t, RestartResets(tasks[t]))
            /\ Requeue(t)
            /\ ret' = Ret("restart", t, TRUE)
       ELSE /\ ret' = Ret("restart", t, FALSE)
            /\ UNCHANGED <<tasks, task_queue, queued_task_ids>>
    /\ UNCHANGED <<running, popped, dpc, execs, nruns, dstSize, dstFiles>>
    /\ NotSched /\ NoRecord

----------------------------------------------------------------------------
(* Scheduler: the dispatcher thread (_scheduler_loop).  task_queue.get()
   runs outside task_lock; the discard and the lookup run under it. *)

(* task_queue.get() taking the newest id instead of the oldest *)
DispatchPop_TakesLast ==
    /\ running
    /\ dpc = "get"
    /\ task_queue # <<>>
    /\ popped' = task_queue[Len(task_queue)]
    /\ task_queue' = SubSeq(task_queue, 1, Len(task_queue) - 1)
    /\ dpc' = "got"
    /\ ret' = NoRet
    /\ UNCHANGED <<running, tasks, queued_task_ids, execs, nruns, dstSize, dstFiles>>
    /\ NotSched /\ NoRecord

DispatchPop ==
    /\ running
    /\ dpc = "get"
    /\ task_queue # <<>>
    /\ popped' = Head(task_queue)
    /\ task_queue' = Tail(task_queue)
    /\ dpc' = "got"
    /\ ret' = NoRet
    /\ UNCHANGED <<running, tasks, queued_task_ids, execs, nruns, dstSize, dstFiles>>
    /\ NotSched /\ NoRecord

(* with self.task_lock: queued_task_ids.discard(task_id); task = tasks.get(task_id) *)
DispatchDiscard ==
    /\ dpc = "got"
    /\ queued_task_ids' = queued_task_ids \ {popped}
    /\ dpc' = "looked"
    /\ ret' = NoRet
    /\ UNCHANGED <<running, tasks, task_queue, popped, execs, nruns, dstSize, dstFiles>>
    /\ NotSched /\ NoRecord

(* the status the dispatcher requires before it submits the task *)
Submittable(r) == r.status = "pending"

(* outside the lock: if task and task.status == "pending": executor.submit(...) *)
DispatchCheck ==
    /\ dpc = "looked"
    /\ IF Known(popped) /\ Submittable(tasks[popped])
       THEN /\ nruns < MaxRuns
            /\ execs' = Append(execs, NewExec(popped))
            /\ nruns' = nruns + 1
       ELSE UNCHANGED <<execs, nruns>>
    /\ popped' = 0
    /\ dpc' = "get"
    /\ ret' = NoRet
    /\ UNCHANGED <<running, tasks, task_queue, queued_task_ids, dstSize, dstFiles>>
    /\ NotSched /\ NoRecord

----------------------------------------------------------------------------
(* Scheduler: what a worker does to the Task it executes. *)

(* _execute_task, first critical section *)
MarkRunning(r) == [r EXCEPT !.status = "running", !.start_time = "set"]

(* check_interrupt of every _execute_* method: the paused branch *)
PausePoll(r) == [r EXCEPT !.status = "paused"]

(* except InterruptedError of _execute_upload, _execute_download and the
   folder methods *)
InterruptedHandler(r) ==
    IF r.paused THEN [r EXCEPT !.status = "paused"] ELSE [r EXCEPT !.status = "canceled"]

(* progress_callback of the single-file methods *)
ProgressCallback(r, b, total) ==
    [r EXCEPT !.bytes_done = b, !.bytes_total = total,
              !.speed = IF r.start_time = "set" /\ b > 0 THEN 1 ELSE r.speed]

(* smart pre-check: destination already complete *)
MarkSkipped_LeavesBytes(r, size) == [r EXCEPT !.skipped = TRUE, !.status = "skipped"]

MarkSkipped(r, size) == [r EXCEPT !.skipped = TRUE, !.status = "skipped", !.bytes_done = size]

(* one file of a folder task finished or skipped *)
FileCounted(r, size) ==
    [r EXCEPT !.subtask_done = r.subtask_done + 1, !.bytes_done = r.bytes_done + size]

(* _execute_task after the _execute_* method returned *)
MarkDone(r) ==
    IF r.status = "running"
    THEN [r EXCEPT !.status = "done", !.bytes_done = r.bytes_total]
    ELSE r

(* _execute_task, except SSHFerryError / except Exception *)
MarkFailed(r, code) ==
    [r EXCEPT !.status = "failed", !.error_code = code, !.error_message = "message"]

ErrorCodes == {"REMOTE_DISCONNECT", "UNKNOWN_ERROR"}

NChunks == FileSize    \* chunks of a parallel transfer, one byte each

Started(e) == e.pc # "submitted"

SetExec(i, e) == [execs EXCEPT ![i] = e]

WorkerFrame == /\ ret' = NoRet
               /\ UNCHANGED <<running, task_queue, queued_task_ids, popped, dpc, nruns>>
               /\ NotSched

MAX_RECORDS == 100

PRESET_ORDER == <<"low", "medium", "high">>

parallel_preset == "high"
parallel_upload_preset == "medium"
parallel_download_preset == "high"

NoMRet == [op |-> "none", val |-> "none"]

TransferRecord(preset, success) == [preset |-> preset, success |-> success]

(* records[-n:] *)
LastN(seq, n) ==
    IF Len(seq) <= n THEN seq ELSE SubSeq(seq, Len(seq) - n + 1, Len(seq))

(* MetricsCollector._save: the file holds the collector's three fields *)
_save(recs, preset, changed) ==
    [exists |-> TRUE, records |-> recs, current_preset |-> preset,
     last_preset_change |-> changed]

NoMFile == [exists |-> FALSE]

record_KeepsOldest(recs, r) ==
    IF Len(recs) < MAX_RECORDS THEN Append(recs, r) ELSE recs

(* MetricsCollector.record: append, keep the last MAX_RECORDS, save *)
record(recs, r) == LastN(Append(recs, r), MAX_RECORDS)

(* the scheduler's self.metrics.record(TransferRecord(...)) *)
Recorded(r) ==
    /\ records' = record(records, r)
    /\ mFile' = _save(records', current_preset, last_preset_change)
    /\ mRet' = [op |-> "record", val |-> "none"]
    /\ UNCHANGED <<current_preset, last_preset_change, now>>

RecordedKinds == {"upload", "download", "folder_upload", "folder_download"}

_metric_preset_for_task(r) ==
    IF r.engine # "parallel" THEN r.engine
    ELSE IF r.kind = "upload" THEN parallel_upload_preset
    ELSE IF r.kind = "download" THEN parallel_download_preset
    ELSE parallel_preset

(* a pool thread takes the oldest waiting execution and enters _execute_task *)
ExecStart(i) ==
    /\ i \in DOMAIN execs
    /\ execs[i].pc = "submitted"
    /\ \A j \in 1..(i - 1) : Started(execs[j])
    /\ Cardinality({j \in DOMAIN execs : Started(execs[j])}) < max_workers
    /\ tasks' = SetTask(execs[i].id, MarkRunning(tasks[execs[i].id]))
    /\ execs' = SetExec(i, [execs[i] EXCEPT !.pc = "begin"])
    /\ UNCHANGED <<dstSize, dstFiles>>
    /\ WorkerFrame /\ NoRecord

(* dispatch on (kind, engine); for a single-session transfer, connect and run
   the smart pre-check *)
ExecBegin(i) ==
    /\ i \in DOMAIN execs
    /\ execs[i].pc = "begin"
    /\ LET t == execs[i].id
           r == tasks[t]
       IN  IF r.kind \in {"upload", "download"} /\ r.engine # "parallel"
           THEN IF dstSize[t] = FileSize
                THEN /\ tasks' = SetTask(t, MarkSkipped(r, FileSize))
                     /\ execs' = SetExec(i, [execs[i] EXCEPT !.pc = "ret"])
                     /\ UNCHANGED dstSize
                ELSE IF dstSize[t] < FileSize
                THEN /\ execs' = SetExec(i, [execs[i] EXCEPT !.pc = "xfer", !.sent = dstSize[t]])
                     /\ UNCHANGED <<tasks, dstSize>>
                ELSE /\ execs' = SetExec(i, [execs[i] EXCEPT !.pc = "xfer", !.sent = 0])
                     /\ dstSize' = [dstSize EXCEPT ![t] = 0]
                     /\ UNCHANGED tasks
           ELSE /\ execs' = SetExec(i, [execs[i] EXCEPT
                                 !.pc = IF r.kind \in FolderKinds THEN "f_poll"
                                        ELSE IF r.kind \in SimpleKinds THEN "s_op"
                                        ELSE "p_run",
                                 !.sent = 0, !.idx = 0, !.lost = "none"])
                /\ UNCHANGED <<tasks, dstSize>>
    /\ UNCHANGED dstFiles
    /\ WorkerFrame /\ NoRecord

(* SftpEngine.upload_file / download_file with check_interrupt and offset:
   between chunks the engine polls check_interrupt, then moves one chunk and
   reports progress *)
XferStep(i) ==
    /\ i \in DOMAIN execs
    /\ execs[i].pc = "xfer"
    /\ LET t == execs[i].id
           r == tasks[t]
           n == execs[i].sent + 1
       IN  IF r.paused
           THEN /\ tasks' = SetTask(t, PausePoll(r))
                /\ execs' = SetExec(i, [execs[i] EXCEPT !.pc = "intr"])
                /\ UNCHANGED dstSize
           ELSE IF r.interrupted
           THEN /\ execs' = SetExec(i, [execs[i] EXCEPT !.pc = "intr"])
                /\ UNCHANGED <<tasks, dstSize>>
           ELSE /\ tasks' = SetTask(t, ProgressCallback(r, n, FileSize))
                /\ dstSize' = [dstSize EXCEPT ![t] = n]
                /\ execs' = SetExec(i, [execs[i] EXCEPT
                                 !.sent = n, !.pc = IF n = FileSize THEN "ret" ELSE "xfer"])
    /\ UNCHANGED dstFiles
    /\ WorkerFrame /\ NoRecord

(* the InterruptedError raised by a poll reaches the method's handler *)
IntrHandler(i) ==
    /\ i \in DOMAIN execs
    /\ execs[i].pc = "intr"
    /\ tasks' = SetTask(execs[i].id, InterruptedHandler(tasks[execs[i].id]))
    /\ execs' = SetExec(i, [execs[i] EXCEPT !.pc = "ret"])
    /\ UNCHANGED <<dstSize, dstFiles>>
    /\ WorkerFrame /\ NoRecord

(* _upload_dir_recursive / _download_dir_recursive: top of the loop over the
   directory entries *)
FolderPoll(i) ==
    /\ i \in DOMAIN execs
    /\ execs[i].pc = "f_poll"
    /\ LET t == execs[i].id
           r == tasks[t]
       IN  IF execs[i].idx = NFiles
           THEN /\ execs' = SetExec(i, [execs[i] EXCEPT !.pc = "ret"])
                /\ UNCHANGED tasks
           ELSE IF r.paused
           THEN /\ tasks' = SetTask(t, PausePoll(r))
                /\ execs' = SetExec(i, [execs[i] EXCEPT !.pc = "intr"])
           ELSE IF r.interrupted
           THEN /\ execs' = SetExec(i, [execs[i] EXCEPT !.pc = "intr"])
                /\ UNCHANGED tasks
           ELSE /\ execs' = SetExec(i, [execs[i] EXCEPT !.pc = "f_file"])
                /\ UNCHANGED tasks
    /\ UNCHANGED <<dstSize, dstFiles>>
    /\ WorkerFrame /\ NoRecord

(* one file of the folder: skipped when the destination has it complete,
   transferred otherwise; either way it is counted *)
FolderFile(i) ==
    /\ i \in DOMAIN execs
    /\ execs[i].pc = "f_file"
    /\ LET t == execs[i].id
           f == execs[i].idx + 1
       IN  /\ tasks' = SetTask(t, FileCounted(tasks[t], FileUnit))
           /\ dstFiles' = [dstFiles EXCEPT ![t] = @ \cup {f}]
           /\ execs' = SetExec(i, [execs[i] EXCEPT !.idx = f, !.pc = "f_poll"])
    /\ UNCHANGED dstSize
    /\ WorkerFrame /\ NoRecord

(* the engine polls check_interrupt while it transfers a file of the folder *)
FolderFilePoll(i) ==
    /\ i \in DOMAIN execs
    /\ execs[i].pc = "f_file"
    /\ LET t == execs[i].id
           r == tasks[t]
       IN  /\ (execs[i].idx + 1) \notin dstFiles[t]
           /\ r.paused \/ r.interrupted
           /\ tasks' = SetTask(t, IF r.paused THEN PausePoll(r) ELSE r)
           /\ execs' = SetExec(i, [execs[i] EXCEPT !.pc = "intr"])
    /\ UNCHANGED <<dstSize, dstFiles>>
    /\ WorkerFrame /\ NoRecord

(* _execute_parallel_upload / _execute_parallel_download as the scheduler sees
   ParallelSftpEngine: a worker takes a chunk and polls check_interrupt.  A
   paused poll raises inside the worker thread, which ends with its chunk
   unsent; an interrupted poll sets the abort event; otherwise the chunk is
   moved and progress is reported. *)
ParStep(i) ==
    /\ i \in DOMAIN execs
    /\ execs[i].pc = "p_run"
    /\ execs[i].idx < NChunks
    /\ execs[i].lost # "abort"
    /\ LET t == execs[i].id
           r == tasks[t]
           n == execs[i].sent + 1
       IN  IF r.paused
           THEN /\ tasks' = SetTask(t, PausePoll(r))
                /\ execs' = SetExec(i, [execs[i] EXCEPT !.idx = @ + 1, !.lost = "died"])
           ELSE IF r.interrupted
           THEN /\ execs' = SetExec(i, [execs[i] EXCEPT !.idx = @ + 1, !.lost = "abort"])
                /\ UNCHANGED tasks
           ELSE /\ tasks' = SetTask(t, ProgressCallback(r, n, FileSize))
                /\ execs' = SetExec(i, [execs[i] EXCEPT !.idx = @ + 1, !.sent = n])
    /\ UNCHANGED <<dstSize, dstFiles>>
    /\ WorkerFrame /\ NoRecord

(* ParallelSftpEngine finalize: after wait(futures) the engine polls
   check_interrupt once more, then checks the counters *)
ParFinal(i) ==
    /\ i \in DOMAIN execs
    /\ execs[i].pc = "p_run"
    /\ execs[i].idx = NChunks \/ execs[i].lost # "none"
    /\ LET t == execs[i].id
           r == tasks[t]
       IN  IF r.paused
           THEN /\ tasks' = SetTask(t, PausePoll(r))
                /\ execs' = SetExec(i, [execs[i] EXCEPT !.pc = "p_intr"])
                /\ NoRecord
           ELSE IF r.interrupted
           THEN /\ execs' = SetExec(i, [execs[i] EXCEPT !.pc = "p_intr"])
                /\ UNCHANGED tasks
                /\ NoRecord
           ELSE IF execs[i].sent < FileSize
           THEN /\ tasks' = SetTask(t, MarkFailed(r, "TRANSFER_FAILED"))
                /\ execs' = RemoveAt(execs, i)
                /\ Recorded(TransferRecord(_metric_preset_for_task(r), FALSE))
           ELSE /\ execs' = SetExec(i, [execs[i] EXCEPT !.pc = "ret"])
                /\ UNCHANGED tasks
                /\ NoRecord
    /\ UNCHANGED <<dstSize, dstFiles>>
    /\ WorkerFrame

(* the parallel methods have no InterruptedError handler: the exception
   reaches except Exception of _execute_task *)
ParIntrFail(i) ==
    /\ i \in DOMAIN execs
    /\ execs[i].pc = "p_intr"
    /\ tasks' = SetTask(execs[i].id, MarkFailed(tasks[execs[i].id], "UNKNOWN_ERROR"))
    /\ execs' = RemoveAt(execs, i)
    /\ Recorded(TransferRecord(_metric_preset_for_task(tasks[execs[i].id]), FALSE))
    /\ UNCHANGED <<dstSize, dstFiles>>
    /\ WorkerFrame

(* _execute_delete / _execute_mkdir / _execute_rename: the engine call succeeds *)
SimpleOp(i) ==
    /\ i \in DOMAIN execs
    /\ execs[i].pc = "s_op"
    /\ execs' = SetExec(i, [execs[i] EXCEPT !.pc = "ret"])
    /\ UNCHANGED <<tasks, dstSize, dstFiles>>
    /\ WorkerFrame /\ NoRecord

(* an engine call raises: connect, stat, a chunk, the directory listing *)
ExecFail(i, code) ==
    /\ i \in DOMAIN execs
    /\ execs[i].pc \in {"begin", "xfer", "f_file", "p_run", "s_op"}
    /\ tasks' = SetTask(execs[i].id, MarkFailed(tasks[execs[i].id], code))
    /\ execs' = RemoveAt(execs, i)
    /\ IF tasks[execs[i].id].kind \in RecordedKinds
       THEN Recorded(TransferRecord(_metric_preset_for_task(tasks[execs[i].id]), FALSE))
       ELSE NoRecord
    /\ UNCHANGED <<dstSize, dstFiles>>
    /\ WorkerFrame

(* the _execute_* method returned: under task_lock, mark done if the status is
   still running; ended keeps the status the execution left the task with *)
ExecReturn(i) ==
    /\ i \in DOMAIN execs
    /\ execs[i].pc = "ret"
    /\ tasks' = SetTask(execs[i].id, MarkDone(tasks[execs[i].id]))
    /\ execs' = SetExec(i, [execs[i] EXCEPT !.pc = "rec",
                                            !.ended = MarkDone(tasks[execs[i].id]).status])
    /\ UNCHANGED <<dstSize, dstFiles>>
    /\ WorkerFrame /\ NoRecord

(* after the lock is released: the status is read again and a transfer task
   found done is recorded as a success; the execution leaves the pool *)
ExecRecord(i) ==
    /\ i \in DOMAIN execs
    /\ execs[i].pc = "rec"
    /\ IF /\ tasks[execs[i].id].kind \in RecordedKinds
          /\ tasks[execs[i].id].status = "done"
       THEN Recorded(TransferRecord(_metric_preset_for_task(tasks[execs[i].id]), TRUE))
       ELSE NoRecord
    /\ execs' = RemoveAt(execs, i)
    /\ UNCHANGED <<tasks, dstSize, dstFiles>>
    /\ WorkerFrame

----------------------------------------------------------------------------
(* Idle values of the other components *)

PathIdle == pPath = <<>> /\ pRoot = <<>> /\ pOut = "idle" /\ pNorm = <<>>

EngIdle ==
    /\ eRoot = <<>> /\ eConnected = FALSE
    /\ eCall = <<>> /\ eWire = <<>> /\ eOutcome = "idle"

ParIdle ==
    /\ xDir = "none" /\ xSize = 0 /\ xPhase = "idle" /\ xDest = <<>>
    /\ chunk_queue = <<>> /\ xWorkers = <<>>
    /\ bytes_transferred = 0 /\ completed_chunks = 0 /\ chunk_failures = <<>>
    /\ interrupt_event = FALSE /\ last_error = FALSE /\ connect_failures = 0
    /\ xInterrupt = "none" /\ xResult = "idle"

----------------------------------------------------------------------------
(* The scheduler specification *)

(* a collector constructed with no metrics file *)
MetIdle ==
    /\ records = <<>> /\ current_preset = "low" /\ last_preset_change = 0
    /\ now = 0 /\ mFile = NoMFile /\ mRet = NoMRet

NoFile == [exists |-> FALSE, data |-> <<>>]

NotLoaded == [called |-> FALSE, sites |-> <<>>]

StoreIdle == sSites = <<>> /\ sFile = NoFile /\ sLoaded = NotLoaded

NoCaps == [h \in {} |-> 0]

CapIdle == _host_worker_caps = NoCaps /\ cEng = <<>>

TsIdle == tCurrent = "none" /\ tTarget = "none" /\ tOp = "none" /\ tOut = "none"

NoResult == [passed |-> FALSE, message |-> <<>>]

CkIdle ==
    /\ kPc = "idle" /\ kEvents = <<>> /\ kProbe = "none"
    /\ kResult = NoResult /\ kOpen = 0 /\ kRuns = 0

HistIdle == mHistory = <<>>

NoReports == [w \in {} |-> 0]

ProgIdle ==
    /\ xCallback = FALSE /\ last_reported = 0
    /\ report_value = NoReports /\ xReported = <<>>
    /\ xConnected = {} /\ xRequested = FALSE

Init == SchedInit /\ PathIdle /\ EngIdle /\ ParIdle /\ MetIdle /\ StoreIdle /\ CapIdle /\ TsIdle /\ CkIdle /\ ProgIdle /\ HistIdle

Next ==
    \/ Start
    \/ \E t \in TaskIds, ke \in KindEngines, d \in 0..(FileSize + 1) : AddTask(t, ke, d)
    \/ \E t \in TaskIds : ReAddTask(t)
    \/ \E t \in TaskIds : CancelTask(t)
    \/ \E t \in TaskIds : PauseTask(t)
    \/ \E t \in TaskIds : ResumeTask(t)
    \/ \E t \in TaskIds : RestartTask(t)
    \/ DispatchPop
    \/ DispatchDiscard
    \/ DispatchCheck
    \/ \E i \in 1..MaxRuns : ExecStart(i)
    \/ \E i \in 1..MaxRuns : ExecBegin(i)
    \/ \E i \in 1..MaxRuns : XferStep(i)
    \/ \E i \in 1..MaxRuns : IntrHandler(i)
    \/ \E i \in 1..MaxRuns : FolderPoll(i)
    \/ \E i \in 1..MaxRuns : FolderFile(i)
    \/ \E i \in 1..MaxRuns : FolderFilePoll(i)
    \/ \E i \in 1..MaxRuns : ParStep(i)
    \/ \E i \in 1..MaxRuns : ParFinal(i)
    \/ \E i \in 1..MaxRuns : ParIntrFail(i)
    \/ \E i \in 1..MaxRuns : SimpleOp(i)
    \/ \E i \in 1..MaxRuns, code \in ErrorCodes : ExecFail(i, code)
    \/ \E i \in 1..MaxRuns : ExecReturn(i)
    \/ \E i \in 1..MaxRuns : ExecRecord(i)

Spec == Init /\ [][Next]_vars

TypeOK ==
    /\ running \in BOOLEAN
    /\ DOMAIN tasks \subseteq TaskIds
    /\ \A t \in DOMAIN tasks : tasks[t].status \in Statuses
    /\ popped \in {0} \cup TaskIds
    /\ dpc \in {"get", "got", "looked"}
    /\ (dpc = "get") = (popped = 0)
    /\ nruns \in 0..MaxRuns

----------------------------------------------------------------------------
(* Steps of executions, for the properties below *)

(* execution i took a step and is still in the pool *)
Stepped(i) ==
    /\ i \in DOMAIN execs
    /\ Len(execs') = Len(execs)
    /\ execs'[i] # execs[i]

(* execution i took its last step and left the pool *)
Left(i) ==
    /\ i \in DOMAIN execs
    /\ Len(execs') = Len(execs) - 1
    /\ execs' = RemoveAt(execs, i)

(* execution i polled check_interrupt in this step *)
Polled(i) ==
    /\ Stepped(i)
    /\ \/ execs[i].pc \in {"xfer", "p_run"}
       \/ execs[i].pc = "f_poll" /\ execs[i].idx < NFiles
       \/ execs[i].pc = "f_file" /\ execs'[i].pc = "intr"

(* execution i, unwinding from an InterruptedError, reached the code that
   decides the task's status *)
Unwound(i) ==
    \/ Stepped(i) /\ execs[i].pc = "intr"
    \/ Left(i) /\ execs[i].pc = "p_intr"

TerminalStatuses == {"done", "failed", "canceled", "skipped"}

QueueCount(t) == Count(task_queue, t)

----------------------------------------------------------------------------
(* C1: every change of a task's status is a legal transition of the state
   machine: pending -> running | canceled; running -> done | failed | paused |
   canceled | skipped; paused -> running | canceled, and paused -> pending by
   resume; a terminal status -> pending by restart only. *)

LegalChange(from, to, op) ==
    \/ from = to
    \/ from = "pending" /\ to \in {"running", "canceled"}
    \/ from = "running" /\ to \in {"done", "failed", "paused", "canceled", "skipped"}
    \/ from = "paused" /\ to \in {"running", "canceled"}
    \/ from = "paused" /\ to = "pending" /\ op = "resume"
    \/ from \in TerminalStatuses /\ to = "pending" /\ op = "restart"

C1_LegalTransitions ==
    [][\A t \in DOMAIN tasks :
          LegalChange(tasks[t].status, tasks'[t].status, ret'.op)]_vars

(* C2: 0 <= bytes_done <= bytes_total for every task in every state. *)
C2_BytesWithinTotal ==
    \A t \in DOMAIN tasks :
        tasks[t].bytes_done >= 0 /\ tasks[t].bytes_done <= tasks[t].bytes_total

(* C5: an execution of a transfer task that is interrupted by a pause or a
   cancel request ends with status paused when the paused flag is set and
   canceled otherwise, for every engine. *)
C5_InterruptEndsPausedOrCanceled ==
    [][\A i \in DOMAIN execs :
          Unwound(i) =>
              tasks'[execs[i].id].status =
                  IF tasks[execs[i].id].paused THEN "paused" ELSE "canceled"]_vars

(* C6: cancelTask on a pending or paused task returns true and sets status
   canceled at once; on a running task it returns true and sets the
   interrupted flag, and the worker that then unwinds from its interrupt poll
   leaves the task canceled; in any other state, or for an unknown id, it
   returns false and changes nothing. *)
C6_Cancel ==
    [][/\ \A t \in TaskIds :
            (ret'.op = "cancel" /\ ret'.id = t) =>
                IF Known(t) /\ tasks[t].status \in {"pending", "paused"}
                THEN ret'.ok /\ tasks' = SetTask(t, [tasks[t] EXCEPT !.status = "canceled"])
                ELSE IF Known(t) /\ tasks[t].status = "running"
                THEN ret'.ok /\ tasks' = SetTask(t, [tasks[t] EXCEPT !.interrupted = TRUE])
                ELSE ~ret'.ok /\ tasks' = tasks /\ task_queue' = task_queue
       /\ \A i \in DOMAIN execs :
            (Unwound(i) /\ tasks[execs[i].id].interrupted) =>
                tasks'[execs[i].id].status = "canceled"]_vars

(* C7: pauseTask returns true only for a running task; it then sets the paused
   flag and leaves the status running, and a worker's next poll of
   check_interrupt moves the task to paused.  In any other state, or for an
   unknown id, it returns false and changes neither the task nor the queue. *)
C7_Pause ==
    [][/\ \A t \in TaskIds :
            (ret'.op = "pause" /\ ret'.id = t) =>
                IF Known(t) /\ tasks[t].status = "running"
                THEN /\ ret'.ok
                     /\ tasks' = SetTask(t, [tasks[t] EXCEPT !.paused = TRUE])
                     /\ tasks'[t].status = "running"
                     /\ task_queue' = task_queue /\ queued_task_ids' = queued_task_ids
                ELSE /\ ~ret'.ok
                     /\ tasks' = tasks
                     /\ task_queue' = task_queue /\ queued_task_ids' = queued_task_ids
       /\ \A i \in DOMAIN execs :
            (Polled(i) /\ tasks[execs[i].id].paused) =>
                tasks'[execs[i].id].status = "paused"]_vars

(* C7 witness: a pause was accepted for a running task and a worker's poll
   has moved the task to paused; the worker is still unwinding. *)
C7_Witness ==
    \E i \in DOMAIN execs :
        /\ execs[i].pc \in {"intr", "p_intr"}
        /\ tasks[execs[i].id].paused
        /\ tasks[execs[i].id].status = "paused"

(* C8: after resumeTask returned true the task is pending with the paused flag
   cleared, and it is not canceled by anything but a cancel command: the
   worker that is still unwinding from the pause leaves it alone. *)
C8_Resume ==
    [][/\ \A t \in TaskIds :
            (ret'.op = "resume" /\ ret'.id = t /\ ret'.ok) =>
                tasks'[t].status = "pending" /\ ~tasks'[t].paused
       /\ \A t \in DOMAIN tasks :
            (tasks[t].status = "pending" /\ tasks'[t].status = "canceled") =>
                ret'.op = "cancel"]_vars

RestartCleared(r) ==
    /\ r.status = "pending" /\ r.bytes_done = 0 /\ r.speed = 0
    /\ r.error_code = "none" /\ r.error_message = "none" /\ r.start_time = "none"
    /\ ~r.interrupted /\ ~r.paused /\ ~r.skipped

(* C9 as stated: after restartTask returned true the task is pending with its
   progress, error and flag fields cleared and its id is in the queue exactly
   once. *)
C9_RestartQueuedOnce ==
    (ret.op = "restart" /\ ret.ok) =>
        RestartCleared(tasks[ret.id]) /\ QueueCount(ret.id) = 1

(* C9 amended: restartTask on a task whose status is done, failed, canceled or
   skipped returns true and leaves it pending with the fields cleared, and its
   id is in the queue exactly once, unless the dispatcher has just taken it
   from the queue and not yet discarded it from the queued set: then it is not
   in the queue, and the dispatcher goes on to examine the pending task. *)
C9_Restart ==
    [][\A t \in TaskIds :
          (ret'.op = "restart" /\ ret'.id = t /\ Known(t)
             /\ tasks[t].status \in TerminalStatuses) =>
              /\ ret'.ok
              /\ RestartCleared(tasks'[t])
              /\ Count(task_queue', t) = IF popped' = t /\ dpc' = "got" THEN 0 ELSE 1]_vars

(* C9 witness: a restart was accepted and the task is pending again with its
   id in the queue. *)
C9_Witness ==
    /\ ret.op = "restart" /\ ret.ok
    /\ tasks[ret.id].status = "pending"
    /\ QueueCount(ret.id) = 1

----------------------------------------------------------------------------
(* Path sandbox (src/shared/paths.py).  A path is a sequence of characters;
   posixpath.normpath is modelled step by step as CPython computes it. *)

MaxPathLen == 5    \* longest path argument drawn
MaxRootLen == 2    \* longest remote_root drawn

Alphabet == {"/", ".", "a"}

StrsUpTo(n) == UNION {[1..k -> Alphabet] : k \in 0..n}

startswith(s, prefix) ==
    /\ Len(prefix) <= Len(s)
    /\ SubSeq(s, 1, Len(prefix)) = prefix

(* str.split('/') *)
RECURSIVE split(_)
split(p) ==
    IF \A i \in DOMAIN p : p[i] # "/"
    THEN <<p>>
    ELSE LET k == CHOOSE i \in DOMAIN p : p[i] = "/" /\ \A j \in 1..(i - 1) : p[j] # "/"
         IN  <<SubSeq(p, 1, k - 1)>> \o split(SubSeq(p, k + 1, Len(p)))

(* '/'.join(comps) *)
RECURSIVE join(_)
join(comps) ==
    IF comps = <<>> THEN <<>>
    ELSE IF Len(comps) = 1 THEN comps[1]
    ELSE comps[1] \o <<"/">> \o join(Tail(comps))

Dot == <<".">>
DotDot == <<".", ".">>

(* the component loop of posixpath.normpath *)
RECURSIVE new_comps(_, _, _)
new_comps(comps, acc, initial_slashes) ==
    IF comps = <<>> THEN acc
    ELSE LET comp == Head(comps) IN
         IF comp = <<>> \/ comp = Dot
         THEN new_comps(Tail(comps), acc, initial_slashes)
         ELSE IF \/ comp # DotDot
                 \/ (initial_slashes = 0 /\ acc = <<>>)
                 \/ (acc # <<>> /\ acc[Len(acc)] = DotDot)
         THEN new_comps(Tail(comps), Append(acc, comp), initial_slashes)
         ELSE IF acc # <<>>
         THEN new_comps(Tail(comps), SubSeq(acc, 1, Len(acc) - 1), initial_slashes)
         ELSE new_comps(Tail(comps), acc, initial_slashes)

(* posixpath.normpath: exactly two leading slashes are kept, the empty path
   becomes "." *)
normpath(path) ==
    IF path = <<>> THEN Dot
    ELSE LET initial_slashes ==
                 IF ~startswith(path, <<"/">>) THEN 0
                 ELSE IF startswith(path, <<"/", "/">>) /\ ~startswith(path, <<"/", "/", "/">>)
                 THEN 2 ELSE 1
             joined == join(new_comps(split(path), <<>>, initial_slashes))
             out == [i \in 1..initial_slashes |-> "/"] \o joined
         IN  IF out = <<>> THEN Dot ELSE out

normalize_remote_path(path) ==
    LET normalized == normpath(path)
    IN  IF ~startswith(normalized, <<"/">>) THEN <<"/">> \o normalized ELSE normalized

ensure_in_sandbox_PrefixOnly(path, remote_root) ==
    LET normalized_path == normalize_remote_path(path)
        normalized_root == normalize_remote_path(remote_root)
    IN  \/ normalized_path = normalized_root
        \/ startswith(normalized_path, normalized_root)

(* TRUE when ensure_in_sandbox returns, FALSE when it raises ValidationError *)
ensure_in_sandbox(path, remote_root) ==
    LET normalized_path == normalize_remote_path(path)
        normalized_root == normalize_remote_path(remote_root)
    IN  \/ normalized_path = normalized_root
        \/ startswith(normalized_path, normalized_root \o <<"/">>)

PathInit ==
    /\ SchedInit /\ EngIdle /\ ParIdle /\ MetIdle /\ StoreIdle /\ CapIdle /\ TsIdle /\ CkIdle /\ ProgIdle /\ HistIdle
    /\ pPath \in StrsUpTo(MaxPathLen)
    /\ pRoot \in StrsUpTo(MaxRootLen)
    /\ pOut = "idle"
    /\ pNorm = <<>>

EnsureInSandbox ==
    /\ pOut = "idle"
    /\ pOut' = IF ensure_in_sandbox(pPath, pRoot) THEN "ok" ELSE "VALIDATION_FAILED"
    /\ UNCHANGED <<pPath, pRoot, pNorm, schedVars, engVars, parVars, metVars, storeVars, capVars, tsVars, ckVars, progVars, histVars>>

NormalizeRemotePath ==
    /\ pNorm = <<>>
    /\ pNorm' = normalize_remote_path(pPath)
    /\ UNCHANGED <<pPath, pRoot, pOut, schedVars, engVars, parVars, metVars, storeVars, capVars, tsVars, ckVars, progVars, histVars>>

PathNext == EnsureInSandbox \/ NormalizeRemotePath

SpecPath == PathInit /\ [][PathNext]_vars

(* the result of ensure_in_sandbox on the drawn arguments *)
Accepted == pOut = "ok"

(* the normalized root is a directory below the file system root *)
BelowTop(root) ==
    /\ startswith(root, <<"/">>)
    /\ normalize_remote_path(root) \notin {<<"/">>, <<"/", "/">>}

NoTrailingSlash(p) == p # <<>> /\ p[Len(p)] # "/"

(* C10: ensure_in_sandbox(path, root) returns if and only if normalize(path)
   equals normalize(root) or starts with normalize(root) + "/", and raises
   ValidationError otherwise; so a sibling whose name has the root as a string
   prefix is rejected, a path that leaves the root through ".." is rejected,
   and writing either argument with a trailing slash (added to a non-empty
   argument that does not end in one) does not change the result. *)
C10_SandboxRule ==
    pOut # "idle" =>
        /\ Accepted <=>
               \/ normalize_remote_path(pPath) = normalize_remote_path(pRoot)
               \/ startswith(normalize_remote_path(pPath),
                             normalize_remote_path(pRoot) \o <<"/">>)
        /\ ~Accepted => pOut = "VALIDATION_FAILED"
        /\ (BelowTop(pRoot) /\ pRoot[Len(pRoot)] = "a" /\ pPath = pRoot \o <<"a">>)
               => ~Accepted
        /\ (BelowTop(pRoot) /\ pPath = pRoot \o <<"/", ".", ".">>) => ~Accepted
        /\ NoTrailingSlash(pPath) =>
               (ensure_in_sandbox(pPath \o <<"/">>, pRoot) <=> Accepted)
        /\ NoTrailingSlash(pRoot) =>
               (ensure_in_sandbox(pPath, pRoot \o <<"/">>) <=> Accepted)

(* C10 witness: a sibling of the root whose name has the root as a string
   prefix was checked and rejected. *)
C10_Witness ==
    /\ pOut = "VALIDATION_FAILED"
    /\ BelowTop(pRoot)
    /\ pRoot[Len(pRoot)] = "a"
    /\ pPath = pRoot \o <<"a">>

----------------------------------------------------------------------------
(* SftpEngine (src/engines/sftp_engine.py) against an SFTP client that records
   the calls it receives and may fail any of them. *)

MaxArgLen == 2     \* longest remote path argument drawn

(* the caller is between operations *)
Callable == eOutcome = "idle"

EngineResult(name, args, wire, outcome) ==
    /\ eCall' = <<name, args>>
    /\ eWire' = wire
    /\ eOutcome' = outcome
    /\ UNCHANGED <<eRoot, eConnected, schedVars, pathVars, parVars, metVars, storeVars, capVars, tsVars, ckVars, progVars, histVars>>

WireCall(fn, args) == [fn |-> fn, args |-> args]

(* the shape shared by the operations that take one remote path: connection
   test, sandbox check, normalization, then one client call whose exceptions
   are translated *)
OnePathOp(name, fn, remote_path, errors) ==
    /\ Callable
    /\ IF ~eConnected
       THEN EngineResult(name, <<remote_path>>, <<>>, "REMOTE_DISCONNECT")
       ELSE IF ~ensure_in_sandbox(remote_path, eRoot)
       THEN EngineResult(name, <<remote_path>>, <<>>, "VALIDATION_FAILED")
       ELSE \E outcome \in {"ok"} \cup errors :
                EngineResult(name, <<remote_path>>,
                             <<WireCall(fn, <<normalize_remote_path(remote_path)>>)>>, outcome)

connect ==
    /\ eRoot # <<>>
    /\ eConnected' = TRUE
    /\ UNCHANGED <<eRoot, eCall, eWire, eOutcome, schedVars, pathVars, parVars, metVars, storeVars, capVars, tsVars, ckVars, progVars, histVars>>

disconnect ==
    /\ eRoot # <<>>
    /\ eConnected' = FALSE
    /\ UNCHANGED <<eRoot, eCall, eWire, eOutcome, schedVars, pathVars, parVars, metVars, storeVars, capVars, tsVars, ckVars, progVars, histVars>>

(* the caller has the result of the last operation and may call the next *)
EngineReturn ==
    /\ eOutcome # "idle"
    /\ eCall' = <<>> /\ eWire' = <<>> /\ eOutcome' = "idle"
    /\ UNCHANGED <<eRoot, eConnected, schedVars, pathVars, parVars, metVars, storeVars, capVars, tsVars, ckVars, progVars, histVars>>

list_dir(remote_path) ==
    OnePathOp("list_dir", "listdir_attr", remote_path,
              {"PATH_NOT_FOUND", "PERMISSION_DENIED", "UNKNOWN_ERROR"})

mkdir(remote_path) == OnePathOp("mkdir", "mkdir", remote_path, {"UNKNOWN_ERROR"})

remove_file(remote_path) == OnePathOp("remove_file", "remove", remote_path, {"UNKNOWN_ERROR"})

remove_dir(remote_path) == OnePathOp("remove_dir", "rmdir", remote_path, {"UNKNOWN_ERROR"})

rename_ChecksSourceOnly(old_path, new_path) ==
    /\ Callable
    /\ IF ~eConnected
       THEN EngineResult("rename", <<old_path, new_path>>, <<>>, "REMOTE_DISCONNECT")
       ELSE IF ~ensure_in_sandbox(old_path, eRoot)
       THEN EngineResult("rename", <<old_path, new_path>>, <<>>, "VALIDATION_FAILED")
       ELSE \E outcome \in {"ok", "UNKNOWN_ERROR"} :
                EngineResult("rename", <<old_path, new_path>>,
                             <<WireCall("rename", <<normalize_remote_path(old_path),
                                                    normalize_remote_path(new_path)>>)>>,
                             outcome)

rename(old_path, new_path) ==
    /\ Callable
    /\ IF ~eConnected
       THEN EngineResult("rename", <<old_path, new_path>>, <<>>, "REMOTE_DISCONNECT")
       ELSE IF ~ensure_in_sandbox(old_path, eRoot) \/ ~ensure_in_sandbox(new_path, eRoot)
       THEN EngineResult("rename", <<old_path, new_path>>, <<>>, "VALIDATION_FAILED")
       ELSE \E outcome \in {"ok", "UNKNOWN_ERROR"} :
                EngineResult("rename", <<old_path, new_path>>,
                             <<WireCall("rename", <<normalize_remote_path(old_path),
                                                    normalize_remote_path(new_path)>>)>>,
                             outcome)

upload_file(remote_path) == OnePathOp("upload_file", "put", remote_path, {"UNKNOWN_ERROR"})

download_file(remote_path) == OnePathOp("download_file", "get", remote_path, {"UNKNOWN_ERROR"})

stat(remote_path) ==
    OnePathOp("stat", "stat", remote_path, {"PATH_NOT_FOUND", "UNKNOWN_ERROR"})

(* the shell command of the recursive delete: rm -rf '<path>' *)
rm_rf(path) == <<"r", "m", " ", "-", "r", "f", " ", "'">> \o path \o <<"'">>

(* remove_dir_recursive without its safety gate *)
remove_dir_recursive_NoGate(remote_path) ==
    /\ Callable
    /\ IF ~eConnected
       THEN EngineResult("remove_dir_recursive", <<remote_path>>, <<>>, "REMOTE_DISCONNECT")
       ELSE IF ~ensure_in_sandbox(remote_path, eRoot)
       THEN EngineResult("remove_dir_recursive", <<remote_path>>, <<>>, "VALIDATION_FAILED")
       ELSE \E exit_status \in 0..1 :
                EngineResult("remove_dir_recursive", <<remote_path>>,
                             <<WireCall("exec_command",
                                        <<rm_rf(normalize_remote_path(remote_path))>>),
                               WireCall("recv_exit_status", <<exit_status>>)>>,
                             IF exit_status = 0 THEN "ok" ELSE "UNKNOWN_ERROR")

(* remove_dir_recursive: connection test, safety gate ("/" and remote_root),
   sandbox check, then rm -rf on the exec channel; the exit status decides *)
remove_dir_recursive(remote_path) ==
    /\ Callable
    /\ IF ~eConnected
       THEN EngineResult("remove_dir_recursive", <<remote_path>>, <<>>, "REMOTE_DISCONNECT")
       ELSE IF \/ normalize_remote_path(remote_path) = <<"/">>
               \/ normalize_remote_path(remote_path) = eRoot
       THEN EngineResult("remove_dir_recursive", <<remote_path>>, <<>>, "VALIDATION_FAILED")
       ELSE IF ~ensure_in_sandbox(remote_path, eRoot)
       THEN EngineResult("remove_dir_recursive", <<remote_path>>, <<>>, "VALIDATION_FAILED")
       ELSE \E exit_status \in 0..1 :
                EngineResult("remove_dir_recursive", <<remote_path>>,
                             <<WireCall("exec_command",
                                        <<rm_rf(normalize_remote_path(remote_path))>>),
                               WireCall("recv_exit_status", <<exit_status>>)>>,
                             IF exit_status = 0 THEN "ok" ELSE "UNKNOWN_ERROR")

(* remote_root joined with a short path *)
BelowRoot == {eRoot \o <<"/">> \o p : p \in StrsUpTo(MaxArgLen)}

EngInit ==
    /\ SchedInit /\ PathIdle /\ ParIdle /\ MetIdle /\ StoreIdle /\ CapIdle /\ TsIdle /\ CkIdle /\ ProgIdle /\ HistIdle
    /\ eRoot \in StrsUpTo(MaxRootLen) \ {<<>>}
    /\ eConnected = FALSE
    /\ eCall = <<>> /\ eWire = <<>> /\ eOutcome = "idle"

EngNext ==
    \/ connect
    \/ disconnect
    \/ EngineReturn
    \/ \E remote_path \in StrsUpTo(MaxArgLen) : list_dir(remote_path)
    \/ \E remote_path \in StrsUpTo(MaxArgLen) : mkdir(remote_path)
    \/ \E remote_path \in StrsUpTo(MaxArgLen) : remove_file(remote_path)
    \/ \E remote_path \in StrsUpTo(MaxArgLen) : remove_dir(remote_path)
    \/ \E old_path, new_path \in StrsUpTo(MaxArgLen) : rename(old_path, new_path)
    \/ \E remote_path \in StrsUpTo(MaxArgLen) : upload_file(remote_path)
    \/ \E remote_path \in StrsUpTo(MaxArgLen) : download_file(remote_path)
    \/ \E remote_path \in StrsUpTo(MaxArgLen) : stat(remote_path)
    \/ \E remote_path \in StrsUpTo(MaxArgLen) \cup BelowRoot : remove_dir_recursive(remote_path)

SpecEngine == EngInit /\ [][EngNext]_vars

(* every path argument of the call is inside the sandbox *)
AllInside(call) == \A k \in DOMAIN call[2] : ensure_in_sandbox(call[2][k], eRoot)

(* an engine operation ran in this step *)
EngineOpStep == eOutcome = "idle" /\ eOutcome' # "idle"

(* C3: for every SftpEngine operation that takes a remote path, called on a
   connected engine: if any path argument is outside remote_root the operation
   raises ValidationError having made no call on the SFTP client, and a client
   call is made only when ensure_in_sandbox succeeded on every path argument. *)
C3_SandboxBeforeWire ==
    [][(EngineOpStep /\ eConnected) =>
           /\ ~AllInside(eCall') => (eOutcome' = "VALIDATION_FAILED" /\ eWire' = <<>>)
           /\ eWire' # <<>> => AllInside(eCall')]_vars

(* C3 witness: rename was called on a connected engine with its source inside
   and its destination outside the sandbox, and raised ValidationError without
   a client call. *)
C3_Witness ==
    /\ eConnected
    /\ eCall # <<>> /\ eCall[1] = "rename"
    /\ ensure_in_sandbox(eCall[2][1], eRoot)
    /\ ~ensure_in_sandbox(eCall[2][2], eRoot)
    /\ eOutcome = "VALIDATION_FAILED"
    /\ eWire = <<>>

----------------------------------------------------------------------------
(* ParallelSftpEngine.upload_file / download_file
   (src/engines/parallel_sftp_engine.py).  The source file has xSize bytes;
   the byte at offset o is Src(o).  Every worker_loop thread is a process of
   its own; what happens under the engine's lock is one step. *)

MaxFileSize == 3       \* largest source file drawn
chunk_size == 2        \* self.chunk_size, scaled down
ParWorkers == 2        \* self.max_workers of the engine
max_chunk_retries == 1 \* self.max_chunk_retries, scaled down

Src(o) == <<"src", o>>

SrcBytes(offset, length) == [k \in 1..length |-> Src(offset + k - 1)]

Min(a, b) == IF a < b THEN a ELSE b
Max(a, b) == IF a > b THEN a ELSE b

(* math.ceil(file_size / self.chunk_size) *)
num_chunks(file_size) == (file_size + chunk_size - 1) \div chunk_size

(* the chunks put on the queue, in order *)
Chunks(file_size) ==
    [i \in 1..num_chunks(file_size) |->
        <<(i - 1) * chunk_size, Min(chunk_size, file_size - (i - 1) * chunk_size)>>]

(* _get_effective_worker_count with no host cap recorded *)
worker_count(file_size) == Min(ParWorkers, Max(1, num_chunks(file_size)))

WriteAt_Start(dest, offset, data) ==
    [k \in 1..Max(Len(dest), Len(data)) |->
        IF k <= Len(data) THEN data[k] ELSE dest[k]]

(* seek(offset); write(data): bytes past the old end that are not written
   read as zero *)
WriteAt(dest, offset, data) ==
    [k \in 1..Max(Len(dest), offset + Len(data)) |->
        IF k > offset /\ k <= offset + Len(data) THEN data[k - offset]
        ELSE IF k <= Len(dest) THEN dest[k]
        ELSE <<"zero", 0>>]

Zeros(n) == [k \in 1..n |-> <<"zero", 0>>]

NoChunk == <<>>

ParOthers == UNCHANGED <<schedVars, pathVars, engVars, metVars, storeVars, capVars, tsVars, ckVars, histVars>>

ParFrame == ParOthers /\ UNCHANGED progVars

ParInit ==
    /\ SchedInit /\ PathIdle /\ EngIdle /\ MetIdle /\ StoreIdle /\ CapIdle /\ TsIdle /\ CkIdle /\ HistIdle
    /\ xCallback \in BOOLEAN /\ last_reported = 0
    /\ report_value = [w \in 1..ParWorkers |-> 0] /\ xReported = <<>>
    /\ xConnected = {} /\ xRequested = FALSE
    /\ xDir \in {"upload", "download"}
    /\ xSize \in 1..MaxFileSize
    /\ xPhase = "called"
    /\ xDest \in {<<>>, [k \in 1..(xSize + 1) |-> <<"old", 0>>]}
    /\ chunk_queue = <<>> /\ xWorkers = <<>>
    /\ bytes_transferred = 0 /\ completed_chunks = 0
    /\ chunk_failures = [o \in {} |-> 0]
    /\ interrupt_event = FALSE /\ last_error = FALSE /\ connect_failures = 0
    /\ xInterrupt = "none" /\ xResult = "idle"

(* file_size < self.chunk_size: the whole transfer is handed to one SftpEngine *)
par_small_file ==
    /\ xPhase = "called"
    /\ xSize < chunk_size
    /\ \/ /\ xDest' = SrcBytes(0, xSize)
          /\ xResult' = "returned"
       \/ /\ \E k \in 0..(xSize - 1) : xDest' = SrcBytes(0, k)
          /\ xResult' = "UNKNOWN_ERROR"
    /\ xPhase' = "finished"
    /\ UNCHANGED <<xDir, xSize, chunk_queue, xWorkers, bytes_transferred, completed_chunks,
                   chunk_failures, interrupt_event, last_error, connect_failures, xInterrupt>>
    /\ ParFrame

(* the first connection failed: nothing is queued, the call raises *)
par_prepare_fail ==
    /\ xPhase = "called"
    /\ xSize >= chunk_size
    /\ xResult' = IF xDir = "upload" THEN "TRANSFER_FAILED" ELSE "REMOTE_DISCONNECT"
    /\ xPhase' = "finished"
    /\ UNCHANGED <<xDir, xSize, xDest, chunk_queue, xWorkers, bytes_transferred,
                   completed_chunks, chunk_failures, interrupt_event, last_error,
                   connect_failures, xInterrupt>>
    /\ ParFrame

(* chunks queued, destination opened with "wb" and truncated to file_size
   (on upload a failing truncate is ignored), workers launched *)
par_prepare ==
    /\ xPhase = "called"
    /\ xSize >= chunk_size
    /\ \/ xDest' = Zeros(xSize)
       \/ xDir = "upload" /\ xDest' = <<>>
    /\ chunk_queue' = Chunks(xSize)
    /\ xWorkers' = [w \in 1..worker_count(xSize) |-> [pc |-> "start", chunk |-> NoChunk]]
    /\ xPhase' = "running"
    /\ UNCHANGED <<xDir, xSize, bytes_transferred, completed_chunks, chunk_failures,
                   interrupt_event, last_error, connect_failures, xInterrupt, xResult>>
    /\ ParFrame

SetWorker(w, pc, chunk) == [xWorkers EXCEPT ![w] = [pc |-> pc, chunk |-> chunk]]

worker_connect_FailureAborts(w, outcome) ==
    /\ w \in DOMAIN xWorkers
    /\ xWorkers[w].pc = "start"
    /\ xWorkers' = SetWorker(w, IF outcome = "ok" THEN "loop" ELSE "exit", NoChunk)
    /\ connect_failures' = IF outcome = "connect_failed"
                           THEN connect_failures + 1 ELSE connect_failures
    /\ interrupt_event' = (interrupt_event \/ outcome = "connect_failed")
    /\ xConnected' = IF outcome = "ok" THEN xConnected \cup {w} ELSE xConnected
    /\ UNCHANGED <<xDir, xSize, xPhase, xDest, chunk_queue, bytes_transferred,
                   completed_chunks, chunk_failures, last_error,
                   xInterrupt, xResult, xCallback, last_reported, report_value,
                   xReported, xRequested>>
    /\ ParOthers

(* _connect_with_retry, then the two files are opened *)
worker_connect(w, outcome) ==
    /\ w \in DOMAIN xWorkers
    /\ xWorkers[w].pc = "start"
    /\ xWorkers' = SetWorker(w, IF outcome = "ok" THEN "loop" ELSE "exit", NoChunk)
    /\ connect_failures' = IF outcome = "connect_failed"
                           THEN connect_failures + 1 ELSE connect_failures
    /\ xConnected' = IF outcome = "ok" THEN xConnected \cup {w} ELSE xConnected
    /\ UNCHANGED <<xDir, xSize, xPhase, xDest, chunk_queue, bytes_transferred,
                   completed_chunks, chunk_failures, interrupt_event, last_error,
                   xInterrupt, xResult, xCallback, last_reported, report_value,
                   xReported, xRequested>>
    /\ ParOthers

(* while not interrupt_event.is_set(): queue.get(); Empty with an empty queue
   ends the loop *)
worker_get(w) ==
    /\ w \in DOMAIN xWorkers
    /\ xWorkers[w].pc = "loop"
    /\ IF ~interrupt_event /\ chunk_queue # <<>>
       THEN /\ xWorkers' = SetWorker(w, "got", Head(chunk_queue))
            /\ chunk_queue' = Tail(chunk_queue)
       ELSE /\ xWorkers' = SetWorker(w, "exit", NoChunk)
            /\ UNCHANGED chunk_queue
    /\ UNCHANGED <<xDir, xSize, xPhase, xDest, bytes_transferred, completed_chunks,
                   chunk_failures, interrupt_event, last_error, connect_failures,
                   xInterrupt, xResult>>
    /\ ParFrame

(* check_interrupt() is polled with the chunk in hand: when it returns True the
   event is set and the worker returns; when it raises the worker dies; in
   both cases the chunk is not put back *)
worker_poll(w) ==
    /\ w \in DOMAIN xWorkers
    /\ xWorkers[w].pc = "got"
    /\ IF xInterrupt = "cancel"
       THEN /\ interrupt_event' = TRUE
            /\ xWorkers' = SetWorker(w, "exit", NoChunk)
       ELSE IF xInterrupt = "pause" \/ interrupt_event
       THEN /\ xWorkers' = SetWorker(w, "exit", NoChunk)
            /\ UNCHANGED interrupt_event
       ELSE /\ xWorkers' = SetWorker(w, "io", xWorkers[w].chunk)
            /\ UNCHANGED interrupt_event
    /\ UNCHANGED <<xDir, xSize, xPhase, xDest, chunk_queue, bytes_transferred,
                   completed_chunks, chunk_failures, last_error, connect_failures,
                   xInterrupt, xResult>>
    /\ ParFrame

(* a report is due: the transfer is complete, or a chunk_size of bytes has
   been moved since the last report *)
report_now(transferred) ==
    xCallback /\ (transferred = xSize \/ transferred - last_reported >= chunk_size)

(* the chunk is read at its offset and written at its offset; the counters are
   updated and the report decided under the lock *)
worker_transfer(w) ==
    /\ w \in DOMAIN xWorkers
    /\ xWorkers[w].pc = "io"
    /\ LET offset == xWorkers[w].chunk[1]
           length == xWorkers[w].chunk[2]
       IN  /\ xDest' = WriteAt(xDest, offset, SrcBytes(offset, length))
           /\ bytes_transferred' = bytes_transferred + length
           /\ completed_chunks' = completed_chunks + 1
           /\ IF report_now(bytes_transferred + length)
              THEN /\ last_reported' = bytes_transferred + length
                   /\ report_value' = [report_value EXCEPT ![w] = bytes_transferred + length]
                   /\ xWorkers' = SetWorker(w, "report", NoChunk)
              ELSE /\ xWorkers' = SetWorker(w, "loop", NoChunk)
                   /\ UNCHANGED <<last_reported, report_value>>
    /\ UNCHANGED <<xDir, xSize, xPhase, chunk_queue, chunk_failures, interrupt_event,
                   last_error, connect_failures, xInterrupt, xResult, xCallback, xReported,
                   xConnected, xRequested>>
    /\ ParOthers

(* if report_now: callback(report_value, file_size), after the lock is released *)
worker_report(w) ==
    /\ w \in DOMAIN xWorkers
    /\ xWorkers[w].pc = "report"
    /\ xReported' = Append(xReported, report_value[w])
    /\ xWorkers' = SetWorker(w, "loop", NoChunk)
    /\ UNCHANGED <<xDir, xSize, xPhase, xDest, chunk_queue, bytes_transferred,
                   completed_chunks, chunk_failures, interrupt_event, last_error,
                   connect_failures, xInterrupt, xResult, xCallback, last_reported,
                   report_value, xConnected, xRequested>>
    /\ ParOthers

retry_count_NotCounted(offset) == 0

(* retry_count = chunk_failures.get(offset, 0) + 1 *)
retry_count(offset) ==
    (IF offset \in DOMAIN chunk_failures THEN chunk_failures[offset] ELSE 0) + 1

(* the read or the write raised after k bytes of the chunk reached the
   destination: the failure is counted; past max_chunk_retries the transfer is
   aborted, else the chunk goes back on the queue *)
worker_transfer_fail(w, k) ==
    /\ w \in DOMAIN xWorkers
    /\ xWorkers[w].pc = "io"
    /\ LET offset == xWorkers[w].chunk[1]
           length == xWorkers[w].chunk[2]
       IN  /\ k < length
           /\ xDest' = IF k = 0 THEN xDest ELSE WriteAt(xDest, offset, SrcBytes(offset, k))
           /\ chunk_failures' =
                  [o \in DOMAIN chunk_failures \cup {offset} |->
                      IF o = offset THEN retry_count(offset) ELSE chunk_failures[o]]
           /\ IF retry_count(offset) > max_chunk_retries
              THEN /\ last_error' = TRUE
                   /\ interrupt_event' = TRUE
                   /\ xWorkers' = SetWorker(w, "exit", NoChunk)
                   /\ UNCHANGED chunk_queue
              ELSE /\ chunk_queue' = Append(chunk_queue, xWorkers[w].chunk)
                   /\ xWorkers' = SetWorker(w, "loop", NoChunk)
                   /\ UNCHANGED <<last_error, interrupt_event>>
    /\ UNCHANGED <<xDir, xSize, xPhase, bytes_transferred, completed_chunks,
                   connect_failures, xInterrupt, xResult>>
    /\ ParFrame

(* wait(futures), then the checks that decide between returning and raising *)
par_finish ==
    /\ xPhase = "running"
    /\ \A w \in DOMAIN xWorkers : xWorkers[w].pc = "exit"
    /\ xResult' =
           IF xInterrupt # "none" THEN "InterruptedError"
           ELSE IF interrupt_event /\ last_error THEN "TRANSFER_FAILED"
           ELSE IF bytes_transferred < xSize \/ completed_chunks < num_chunks(xSize)
           THEN "TRANSFER_FAILED"
           ELSE "returned"
    /\ xPhase' = "finished"
    /\ UNCHANGED <<xDir, xSize, xDest, chunk_queue, xWorkers, bytes_transferred,
                   completed_chunks, chunk_failures, interrupt_event, last_error,
                   connect_failures, xInterrupt>>
    /\ ParFrame

(* the caller's task is canceled or paused, or the request is withdrawn, while
   the transfer runs *)
set_interrupt(kind) ==
    /\ xPhase = "running"
    /\ kind # xInterrupt
    /\ xInterrupt' = kind
    /\ xRequested' = (xRequested \/ kind # "none")
    /\ UNCHANGED <<xDir, xSize, xPhase, xDest, chunk_queue, xWorkers, bytes_transferred,
                   completed_chunks, chunk_failures, interrupt_event, last_error,
                   connect_failures, xResult, xCallback, last_reported, report_value,
                   xReported, xConnected>>
    /\ ParOthers

ParNext ==
    \/ par_small_file
    \/ par_prepare_fail
    \/ par_prepare
    \/ \E w \in 1..ParWorkers, outcome \in {"ok", "connect_failed", "open_failed"} :
           worker_connect(w, outcome)
    \/ \E w \in 1..ParWorkers : worker_get(w)
    \/ \E w \in 1..ParWorkers : worker_poll(w)
    \/ \E w \in 1..ParWorkers : worker_transfer(w)
    \/ \E w \in 1..ParWorkers : worker_report(w)
    \/ \E w \in 1..ParWorkers, k \in 0..(chunk_size - 1) : worker_transfer_fail(w, k)
    \/ par_finish
    \/ \E kind \in {"none", "cancel", "pause"} : set_interrupt(kind)

SpecParallel == ParInit /\ [][ParNext]_vars

(* C4: a parallel upload of a file of at least chunk_size bytes that returns
   without raising has written every chunk at its own offset: the destination
   has the size of the source, the byte at every offset is the source byte at
   that offset, and completed_chunks equals num_chunks.  Parallel download
   mirrors this on the local file. *)
C4_ReturnedMeansComplete ==
    (xResult = "returned" /\ xSize >= chunk_size) =>
        /\ Len(xDest) = xSize
        /\ \A o \in 0..(xSize - 1) : xDest[o + 1] = Src(o)
        /\ completed_chunks = num_chunks(xSize)

(* C4 witness: an upload in more than one chunk returned after a chunk had
   failed and was retried. *)
C4_Witness ==
    /\ xDir = "upload"
    /\ xResult = "returned"
    /\ num_chunks(xSize) > 1
    /\ \E o \in DOMAIN chunk_failures : chunk_failures[o] > 0

(* C11: when remote_root is "/" the whole remote file system is the sandbox:
   ensure_in_sandbox accepts every absolute path. *)
C11_RootAcceptsAbsolute ==
    (pOut # "idle" /\ pRoot = <<"/">> /\ startswith(pPath, <<"/">>)) => Accepted

(* C16: normalize_remote_path is idempotent on every input path, absolute or
   relative, including the empty path, "." and paths that begin with "..". *)
C16_NormalizeIdempotent ==
    pNorm # <<>> => normalize_remote_path(pNorm) = pNorm

(* the components of a normalized path: the text between its slashes, the
   text before the leading slash left out *)
Components(p) == Tail(split(p))

(* C17: for every input path normalize_remote_path returns a path that starts
   with exactly one "/", has no "." or ".." component and no two consecutive
   "/" anywhere; a path that begins with two or more slashes normalizes like
   the same path with one leading slash. *)
C17_NormalizeCanonical ==
    pNorm # <<>> =>
        /\ pNorm[1] = "/"
        /\ \A k \in 1..(Len(pNorm) - 1) : ~(pNorm[k] = "/" /\ pNorm[k + 1] = "/")
        /\ \A k \in DOMAIN Components(pNorm) :
               Components(pNorm)[k] \notin {Dot, DotDot}
        /\ startswith(pPath, <<"/", "/">>) => pNorm = normalize_remote_path(Tail(pPath))

(* execution i runs a single-session upload or download *)
SingleSession(i) ==
    /\ tasks[execs[i].id].kind \in {"upload", "download"}
    /\ tasks[execs[i].id].engine # "parallel"

(* C18: smart pre-check of a single-session upload (download) with source size
   L and destination size R: if R = L the task gets status skipped with
   bytes_done = L, the transfer is not invoked, and the returning execution
   does not mark the task done; if R < L the transfer is invoked with offset R
   and sends the remaining L - R bytes; if R > L, or there is no destination,
   it is invoked with offset 0. *)
C18_SmartPreCheck ==
    [][\A i \in DOMAIN execs :
          /\ (Stepped(i) /\ execs[i].pc = "begin" /\ SingleSession(i)) =>
                LET t == execs[i].id
                    R == dstSize[t]
                    L == FileSize
                IN  /\ R = L => /\ tasks'[t].status = "skipped"
                                /\ tasks'[t].skipped
                                /\ tasks'[t].bytes_done = L
                                /\ execs'[i].pc = "ret"
                                /\ dstSize' = dstSize
                    /\ R < L => execs'[i].pc = "xfer" /\ execs'[i].sent = R
                    /\ R > L => execs'[i].pc = "xfer" /\ execs'[i].sent = 0
          /\ (Stepped(i) /\ execs[i].pc = "xfer" /\ execs'[i].pc = "ret") =>
                execs'[i].sent = FileSize /\ execs'[i].sent = execs[i].sent + 1
          /\ (Stepped(i) /\ execs[i].pc = "xfer" /\ execs'[i].pc = "xfer") =>
                execs'[i].sent = execs[i].sent + 1
          /\ (Stepped(i) /\ execs[i].pc = "ret" /\ tasks[execs[i].id].status = "skipped") =>
                tasks'[execs[i].id].status = "skipped"]_vars

(* C18 witness: the pre-check found a complete destination; the task is
   skipped with all bytes counted and its execution is about to return. *)
C18_Witness ==
    \E i \in DOMAIN execs :
        /\ SingleSession(i)
        /\ execs[i].pc = "ret" /\ execs[i].sent = 0
        /\ dstSize[execs[i].id] = FileSize
        /\ tasks[execs[i].id].status = "skipped"
        /\ tasks[execs[i].id].bytes_done = FileSize

(* C19: a task's status becomes done only in the step in which one of its
   executions returns cleanly while the status is still running, and that step
   sets bytes_done to bytes_total; in every state a task with status done has
   bytes_done = bytes_total; and a returning execution never turns a status of
   skipped, paused or canceled into done. *)
C19_DoneOnlyOnCleanReturn ==
    /\ [](\A t \in DOMAIN tasks :
             tasks[t].status = "done" => tasks[t].bytes_done = tasks[t].bytes_total)
    /\ [][\A t \in DOMAIN tasks :
             /\ (tasks[t].status # "done" /\ tasks'[t].status = "done") =>
                   /\ tasks[t].status = "running"
                   /\ tasks'[t].bytes_done = tasks'[t].bytes_total
                   /\ \E i \in DOMAIN execs :
                         Stepped(i) /\ execs[i].id = t /\ execs[i].pc = "ret"
             /\ (tasks[t].status \in {"skipped", "paused", "canceled"}
                   /\ \E i \in DOMAIN execs : Stepped(i) /\ execs[i].id = t) =>
                   tasks'[t].status # "done"]_vars

(* the step appends exactly the one record r to the collector's records *)
AppendsOne(r) == records' = Append(records, r)

(* C20: an execution that raises an error leaves the task failed with
   error_code and error_message set; an execution of a transfer kind appends
   exactly one TransferRecord when it ends done (success) or failed (not
   success) and none when it ends skipped, paused or canceled; an execution of
   delete, mkdir or rename appends none. *)
C20_FailedAndRecorded ==
    [][\A i \in DOMAIN execs :
          LET t == execs[i].id
              p == _metric_preset_for_task(tasks[t])
          IN  /\ (Left(i) /\ execs[i].pc # "rec") =>
                    /\ tasks'[t].status = "failed"
                    /\ tasks'[t].error_code # "none"
                    /\ tasks'[t].error_message # "none"
                    /\ IF tasks[t].kind \in RecordedKinds
                       THEN AppendsOne(TransferRecord(p, FALSE))
                       ELSE records' = records
              /\ (Left(i) /\ execs[i].pc = "rec") =>
                    IF tasks[t].kind \in RecordedKinds /\ execs[i].ended = "done"
                    THEN AppendsOne(TransferRecord(p, TRUE))
                    ELSE records' = records
              /\ Stepped(i) => records' = records]_vars

----------------------------------------------------------------------------
(* SiteStore.save (services/site_store.py) over lists of SiteConfig objects *)

MaxSites == 2

None == "None"

(* the SiteConfig objects drawn: valid ones (__post_init__ accepts them), with
   and without secrets *)
Passwords == {None, "pw1", "pw2"}

Passphrases == {None, "pp1"}

SiteConfig ==
    [name : {"demo"}, host : {"h1"}, port : {22}, username : {"alice"},
     auth_method : {"password", "key"}, remote_root : {"/work"},
     password : Passwords, key_path : {None, "id_rsa"},
     key_passphrase : Passphrases, mscp_path : {None},
     proxy_jump : {None}, ssh_config_path : {None}, ssh_options : {<<>>}]

SiteLists == UNION {[1..n -> SiteConfig] : n \in 0..MaxSites}

_PERSIST_FIELDS_WithPassword ==
    <<"name", "host", "port", "username", "auth_method", "remote_root",
      "key_path", "proxy_jump", "ssh_config_path", "ssh_options", "password">>

_PERSIST_FIELDS ==
    <<"name", "host", "port", "username", "auth_method", "remote_root",
      "key_path", "proxy_jump", "ssh_config_path", "ssh_options">>

Range(seq) == {seq[k] : k \in DOMAIN seq}

(* item = {f: getattr(site, f) for f in _PERSIST_FIELDS} *)
item(site) == [f \in Range(_PERSIST_FIELDS) |-> site[f]]

(* the list of dicts save builds: one per site, in order *)
save(sites) == [k \in DOMAIN sites |-> item(sites[k])]

(* JSON values: null, a number, a string, an array *)
JsonNull == [t |-> "null"]

(* json.dumps of one field: port is an int, ssh_options a list, every other
   field a str or None *)
json_value(f, v) ==
    IF f = "port" THEN [t |-> "num", v |-> v]
    ELSE IF f = "ssh_options" THEN [t |-> "arr", v |-> v]
    ELSE IF v = None THEN JsonNull
    ELSE [t |-> "str", v |-> v]

(* json.dumps(data): a JSON array of objects *)
json_dumps(data) ==
    [k \in DOMAIN data |-> [f \in DOMAIN data[k] |-> json_value(f, data[k][f])]]

StoreInit ==
    /\ SchedInit /\ PathIdle /\ EngIdle /\ ParIdle /\ MetIdle /\ CapIdle /\ TsIdle /\ CkIdle /\ ProgIdle /\ HistIdle
    /\ sSites \in SiteLists
    /\ sFile = NoFile
    /\ sLoaded = NotLoaded

SiteStoreSave ==
    /\ ~sFile.exists
    /\ sFile' = [exists |-> TRUE, data |-> json_dumps(save(sSites))]
    /\ UNCHANGED <<sSites, sLoaded, schedVars, pathVars, engVars, parVars, metVars, capVars, tsVars, ckVars, progVars, histVars>>

StoreNext == SiteStoreSave

SpecStore == StoreInit /\ [][StoreNext]_vars

(* the lists that differ from sites at most in password and key_passphrase *)
SecretVariants(sites) ==
    {[k \in DOMAIN sites |-> [sites[k] EXCEPT !.password = sec[k][1],
                                               !.key_passphrase = sec[k][2]]] :
        sec \in [DOMAIN sites -> Passwords \X Passphrases]}

(* C12: every record save writes has exactly the keys name, host, port,
   username, auth_method, remote_root, key_path, proxy_jump, ssh_config_path,
   ssh_options, so never a key password or key_passphrase, and site lists that
   differ only in password or key_passphrase are saved as identical files. *)
C12_SaveOnlyPersistable ==
    sFile.exists =>
        /\ Len(sFile.data) = Len(sSites)
        /\ \A k \in DOMAIN sFile.data :
              /\ DOMAIN sFile.data[k] = {"name", "host", "port", "username", "auth_method",
                                    "remote_root", "key_path", "proxy_jump",
                                    "ssh_config_path", "ssh_options"}
              /\ "password" \notin DOMAIN sFile.data[k]
              /\ "key_passphrase" \notin DOMAIN sFile.data[k]
        /\ \A alt \in SecretVariants(sSites) : json_dumps(save(alt)) = sFile.data

(* C12 witness: a list holding a site with a password and a site with a key
   passphrase has been saved. *)
C12_Witness ==
    /\ sFile.exists /\ Len(sFile.data) = MaxSites
    /\ \E k \in DOMAIN sSites : sSites[k].password # None
    /\ \E k \in DOMAIN sSites : sSites[k].key_passphrase # None

----------------------------------------------------------------------------
(* MetricsCollector (services/metrics.py): record and get_recommended_preset *)

MaxRecordCalls == 5
TickSeconds == 150
MaxTime == 750

SAMPLE_WINDOW == 10
FAILURE_THRESHOLD == 20    \* 0.20, in hundredths
SUCCESS_THRESHOLD == 95    \* 0.95, in hundredths
COOLDOWN_SECONDS == 300

(* PRESET_ORDER.index(preset) + 1 *)
index(preset) == CHOOSE k \in DOMAIN PRESET_ORDER : PRESET_ORDER[k] = preset

HasPreset(r, preset) == r.preset = preset

(* [r for r in self.records[-SAMPLE_WINDOW:] if r.preset == self.current_preset] *)
recent(recs, preset) ==
    SelectSeq(LastN(recs, SAMPLE_WINDOW), LAMBDA r : HasPreset(r, preset))

success_count(rec) == Cardinality({k \in DOMAIN rec : rec[k].success})

InCooldown_Never(t, changed) == FALSE

InCooldown(t, changed) == t - changed < COOLDOWN_SECONDS

(* success_rate < 1 - FAILURE_THRESHOLD, success_rate = sc / n *)
BelowFailure_Inclusive(sc, n) == 100 * sc <= (100 - FAILURE_THRESHOLD) * n

BelowFailure(sc, n) == 100 * sc < (100 - FAILURE_THRESHOLD) * n

(* success_rate >= SUCCESS_THRESHOLD *)
AtSuccess(sc, n) == 100 * sc >= SUCCESS_THRESHOLD * n

Downgraded_ToBottom(idx) == PRESET_ORDER[1]

Downgraded(idx) == PRESET_ORDER[idx - 1]

Upgraded(idx) == PRESET_ORDER[idx + 1]

(* the collector after construction: fresh, or with the preset and the time of
   its last change loaded from the metrics file; the clock starts far enough
   from 0 for a fresh collector to be outside the cooldown *)
MetInit ==
    /\ SchedInit /\ PathIdle /\ EngIdle /\ ParIdle /\ StoreIdle /\ CapIdle /\ TsIdle /\ CkIdle /\ ProgIdle /\ HistIdle
    /\ records = <<>>
    /\ current_preset \in Range(PRESET_ORDER)
    /\ now = COOLDOWN_SECONDS
    /\ last_preset_change \in {0, now}
    /\ mFile = NoMFile
    /\ mRet = NoMRet

MetFrame == UNCHANGED <<schedVars, pathVars, engVars, parVars, storeVars, capVars, tsVars, ckVars, progVars, histVars>>

(* time passes *)
Tick ==
    /\ now + TickSeconds <= MaxTime
    /\ now' = now + TickSeconds
    /\ mRet' = [op |-> "tick", val |-> "none"]
    /\ UNCHANGED <<records, current_preset, last_preset_change, mFile>>
    /\ MetFrame

(* record(TransferRecord(preset, ..., success, ...)) *)
MetRecord(preset, success) ==
    /\ Len(records) < MaxRecordCalls
    /\ Recorded(TransferRecord(preset, success))
    /\ MetFrame

ChangePreset_KeepsTime(new_preset) ==
    /\ current_preset' = new_preset
    /\ mFile' = _save(records, new_preset, last_preset_change)
    /\ mRet' = [op |-> "get", val |-> new_preset]
    /\ UNCHANGED last_preset_change

(* the preset changes: remember when, save, return the new preset *)
ChangePreset(new_preset) ==
    /\ current_preset' = new_preset
    /\ last_preset_change' = now
    /\ mFile' = _save(records, new_preset, now)
    /\ mRet' = [op |-> "get", val |-> new_preset]

KeepPreset(val) ==
    /\ mRet' = [op |-> "get", val |-> val]
    /\ UNCHANGED <<current_preset, last_preset_change, mFile>>

get_recommended_preset ==
    /\ IF records = <<>>
       THEN KeepPreset("low")
       ELSE IF InCooldown(now, last_preset_change)
       THEN KeepPreset(current_preset)
       ELSE LET rec == recent(records, current_preset)
                sc == success_count(rec)
                current_idx == index(current_preset)
            IN  IF Len(rec) < 3
                THEN KeepPreset(current_preset)
                ELSE IF BelowFailure(sc, Len(rec)) /\ current_idx > 1
                THEN ChangePreset(Downgraded(current_idx))
                ELSE IF AtSuccess(sc, Len(rec)) /\ current_idx < Len(PRESET_ORDER)
                THEN ChangePreset(Upgraded(current_idx))
                ELSE KeepPreset(current_preset)
    /\ UNCHANGED <<records, now>>
    /\ MetFrame

MetNext ==
    \/ Tick
    \/ \E p \in {current_preset, "sftp"}, success \in BOOLEAN : MetRecord(p, success)
    \/ get_recommended_preset

SpecMetrics == MetInit /\ [][MetNext]_vars

(* the step is a call of get_recommended_preset *)
GetCalled == mRet'.op = "get"

Returned(val) == mRet'.val = val

(* the records get_recommended_preset considers, and the successful ones *)
Considered == recent(records, current_preset)

Successful == success_count(Considered)

(* C13: a call of get_recommended_preset made while now - last_preset_change
   < 300 with at least one record returns current_preset and leaves records,
   current_preset, last_preset_change and the saved file unchanged, whatever
   the success rate. *)
C13_CooldownFrame ==
    [][(GetCalled /\ records # <<>> /\ now - last_preset_change < 300) =>
          /\ Returned(current_preset)
          /\ UNCHANGED <<records, current_preset, last_preset_change, mFile>>]_vars

(* C13 witness: the collector is inside the cooldown and every considered
   record is a failure, with a lower preset to go to, and the call returned
   the current preset. *)
C13_Witness ==
    /\ mRet.op = "get" /\ mRet.val = current_preset
    /\ now - last_preset_change < 300
    /\ Len(Considered) >= 3 /\ Successful = 0
    /\ current_preset = "medium"

(* the call changed the preset to p: it is current, the change is timed now,
   the file holds the new state, and p is returned *)
ChangedTo(p) ==
    /\ current_preset' = p
    /\ last_preset_change' = now
    /\ mFile' = [exists |-> TRUE, records |-> records, current_preset |-> p,
                 last_preset_change |-> now]
    /\ Returned(p)

(* C14: outside the cooldown and with at least 3 considered records, the call
   downgrades one step if successRate < 0.80 and a lower preset exists;
   otherwise upgrades one step if successRate >= 0.95 and a higher preset
   exists; otherwise returns current_preset and changes nothing.  A change
   sets current_preset, sets last_preset_change to now, saves, and returns the
   new preset. *)
C14_Decision ==
    [][(GetCalled /\ now - last_preset_change >= 300 /\ Len(Considered) >= 3) =>
          LET n == Len(Considered)
              k == index(current_preset)
          IN  IF 100 * Successful < 80 * n /\ k > 1
              THEN ChangedTo(PRESET_ORDER[k - 1])
              ELSE IF 100 * Successful >= 95 * n /\ k < 3
              THEN ChangedTo(PRESET_ORDER[k + 1])
              ELSE /\ Returned(current_preset)
                   /\ UNCHANGED <<records, current_preset, last_preset_change, mFile>>]_vars

(* C14 witness: a downgrade has been decided and saved. *)
C14_Witness ==
    /\ mRet.op = "get" /\ mRet.val = "low" /\ current_preset = "low"
    /\ last_preset_change = now /\ now > 300
    /\ mFile.exists /\ mFile.current_preset = "low" /\ mFile.last_preset_change = now
    /\ \E k \in DOMAIN records : records[k].preset = "medium" /\ ~records[k].success

(* C15: every call returns low, medium or high and moves current_preset by at
   most one rung of the ladder low, medium, high. *)
C15_OneRung ==
    [][GetCalled =>
          /\ mRet'.val \in {"low", "medium", "high"}
          /\ current_preset' \in {"low", "medium", "high"}
          /\ index(current_preset') - index(current_preset) \in {-1, 0, 1}]_vars

(* C15 witness: from high, with every considered record a failure, the call
   went down to medium and no further. *)
C15_Witness ==
    /\ mRet.op = "get" /\ mRet.val = "medium" /\ current_preset = "medium"
    /\ last_preset_change = now
    /\ Len(recent(records, "high")) >= 3 /\ success_count(recent(records, "high")) = 0
(* the step in which the calling thread, all workers having exited, decides
   the outcome of the transfer *)
Finalized == xPhase = "running" /\ xPhase' = "finished"

(* C21: at the end of a parallel transfer the outcome is decided in this
   order: aborted with a saved chunk error, it raises TransferFailed;
   otherwise, an interrupt requested, it raises Interrupted; otherwise, with
   bytes_transferred < file_size or completed_chunks < num_chunks, it raises
   TransferFailed; only otherwise does it return. *)
C21_FinalizeOrder ==
    [][Finalized =>
          xResult' =
              IF interrupt_event /\ last_error THEN "TRANSFER_FAILED"
              ELSE IF xInterrupt # "none" THEN "InterruptedError"
              ELSE IF bytes_transferred < xSize \/ completed_chunks < num_chunks(xSize)
              THEN "TRANSFER_FAILED"
              ELSE "returned"]_vars

(* the chunks of the transfer that are neither completed, nor on the queue,
   nor in a worker's hands *)
Held == {xWorkers[w].chunk : w \in {v \in DOMAIN xWorkers : xWorkers[v].chunk # NoChunk}}

Queued == {chunk_queue[k] : k \in DOMAIN chunk_queue}

(* worker w's chunk I/O failed in this step *)
ChunkFailed(w) ==
    /\ w \in DOMAIN xWorkers
    /\ xWorkers[w].pc = "io"
    /\ xWorkers'[w].pc # "io"
    /\ chunk_failures' # chunk_failures

Failures(offset) == IF offset \in DOMAIN chunk_failures THEN chunk_failures[offset] ELSE 0

(* a failed chunk is counted; it goes back on the queue while its count is at
   most max_chunk_retries, else the transfer is aborted with the error saved *)
RetryOrAbort ==
    \A w \in DOMAIN xWorkers :
        ChunkFailed(w) =>
            LET chunk == xWorkers[w].chunk
                n == Failures(chunk[1]) + 1
            IN  /\ chunk_failures'[chunk[1]] = n
                /\ IF n <= max_chunk_retries
                   THEN /\ chunk_queue' = Append(chunk_queue, chunk)
                        /\ UNCHANGED <<interrupt_event, last_error>>
                   ELSE interrupt_event' /\ last_error' /\ chunk \notin Queued'

(* an attempt on an offset starts only while fewer than max_chunk_retries + 1
   attempts on it have failed *)
AttemptsBounded ==
    \A w \in DOMAIN xWorkers :
        (xWorkers[w].pc = "got" /\ xWorkers'[w].pc = "io") =>
            Failures(xWorkers[w].chunk[1]) <= max_chunk_retries

(* a transfer aborted with a saved error raises TransferFailed *)
AbortRaises ==
    (Finalized /\ interrupt_event /\ last_error) => xResult' = "TRANSFER_FAILED"

(* while the transfer is not aborted a chunk a worker holds stays held, or is
   completed, or goes back on the queue *)
NoChunkDropped ==
    \A w \in DOMAIN xWorkers :
        (xWorkers[w].chunk # NoChunk /\ ~interrupt_event') =>
            \/ xWorkers[w].chunk \in Held' \cup Queued'
            \/ completed_chunks' = completed_chunks + 1

(* C22: a chunk whose I/O fails is put back on the queue and retried while
   its per-offset failure count is at most max_chunk_retries, so each offset
   is attempted at most max_chunk_retries + 1 times; when the count exceeds
   max_chunk_retries the abort event is set, the last error is saved and the
   transfer raises TransferFailed; while the transfer is not aborted no
   dequeued chunk is dropped without being completed or re-queued. *)
C22_ChunkRetry ==
    [][RetryOrAbort /\ AttemptsBounded /\ AbortRaises /\ NoChunkDropped]_vars
----------------------------------------------------------------------------
(* ParallelSftpEngine: the adaptive host worker cap (_host_worker_caps) and the
   warm-up launch loop of upload_file / download_file, for several engine
   instances working on one host at the same time *)

MaxEngines == 2
MaxEngineWorkers == 8
MaxConnectFailures == 2

min_workers == 2
warmup_batch_size == 4
degrade_after_failures == 2

host_key == "user@host:22"

(* the values of self.max_workers drawn (a preset's workers or the
   SSHFERRY_PARALLEL_WORKERS override) and the chunk counts drawn *)
EngineWorkers == {1, MaxEngineWorkers - 2, MaxEngineWorkers}

ChunkCounts == {1, MaxEngineWorkers}

IdleEngine ==
    [pc |-> "idle", max_workers |-> 0, target_workers |-> 0, launched_workers |-> 0,
     connect_failures |-> 0]

(* self._host_worker_caps.get(self.host_key, self.max_workers) *)
CapOrDefault(mw) ==
    IF host_key \in DOMAIN _host_worker_caps THEN _host_worker_caps[host_key] ELSE mw

(* min(self.max_workers, cap, max(1, num_chunks)) *)
_get_effective_worker_count(mw, chunks) ==
    Min(Min(mw, CapOrDefault(mw)), Max(1, chunks))

(* new_cap = max(self.min_workers, current_target // 2) *)
NewCap(current_target) == Max(min_workers, current_target \div 2)

(* the dict after _degrade_host_worker_cap(current_target): the new cap is
   stored only when it is below the old one *)
_degrade_host_worker_cap_Always(mw, current_target) ==
    [h \in {host_key} |-> NewCap(current_target)]

_degrade_host_worker_cap(mw, current_target) ==
    IF NewCap(current_target) < CapOrDefault(mw)
    THEN [h \in {host_key} |-> NewCap(current_target)]
    ELSE _host_worker_caps

CapFrame ==
    UNCHANGED <<schedVars, pathVars, engVars, parVars, metVars, storeVars, tsVars, ckVars, progVars, histVars>>

CapInit ==
    /\ SchedInit /\ PathIdle /\ EngIdle /\ ParIdle /\ MetIdle /\ StoreIdle /\ TsIdle /\ CkIdle /\ ProgIdle /\ HistIdle
    /\ _host_worker_caps = NoCaps
    /\ cEng = [e \in 1..MaxEngines |-> IdleEngine]

SetEngine(e, r) == [cEng EXCEPT ![e] = r]

(* an engine is constructed and a transfer in chunks starts: the worker count
   is resolved and the launch loop is entered *)
cap_start(e, mw, chunks) ==
    /\ cEng[e].pc = "idle"
    /\ cEng' = SetEngine(e, [pc |-> "launch", max_workers |-> mw,
                             target_workers |-> _get_effective_worker_count(mw, chunks),
                             launched_workers |-> 0, connect_failures |-> 0])
    /\ UNCHANGED _host_worker_caps
    /\ CapFrame

(* one batch of workers is submitted, then time.sleep(warmup_delay_seconds) *)
cap_launch(e) ==
    /\ cEng[e].pc = "launch"
    /\ LET batch == Min(warmup_batch_size,
                        cEng[e].target_workers - cEng[e].launched_workers)
       IN  cEng' = SetEngine(e, [cEng[e] EXCEPT !.launched_workers = @ + batch,
                                                !.pc = "sleep"])
    /\ UNCHANGED _host_worker_caps
    /\ CapFrame

(* a launched worker gives up connecting: connect_failures += 1 *)
cap_connect_fail(e) ==
    /\ cEng[e].pc \in {"sleep", "wait"}
    /\ cEng[e].connect_failures < cEng[e].launched_workers
    /\ cEng[e].connect_failures < MaxConnectFailures
    /\ cEng' = SetEngine(e, [cEng[e] EXCEPT !.connect_failures = @ + 1])
    /\ UNCHANGED _host_worker_caps
    /\ CapFrame

(* after the sleep: degrade when enough workers failed to connect, then go
   round the launch loop again or leave it *)
cap_check(e) ==
    /\ cEng[e].pc = "sleep"
    /\ LET degrade == /\ cEng[e].connect_failures >= degrade_after_failures
                      /\ cEng[e].target_workers > min_workers
           target == IF degrade THEN NewCap(cEng[e].target_workers)
                     ELSE cEng[e].target_workers
       IN  /\ _host_worker_caps' =
                  IF degrade
                  THEN _degrade_host_worker_cap(cEng[e].max_workers, cEng[e].target_workers)
                  ELSE _host_worker_caps
           /\ cEng' = SetEngine(e, [cEng[e] EXCEPT
                         !.target_workers = target,
                         !.pc = IF cEng[e].launched_workers < target
                                THEN "launch" ELSE "wait"])
    /\ CapFrame

(* wait(futures) returns; the transfer ends and the engine is discarded *)
cap_finish(e) ==
    /\ cEng[e].pc = "wait"
    /\ cEng' = SetEngine(e, IdleEngine)
    /\ UNCHANGED _host_worker_caps
    /\ CapFrame

CapNext ==
    \/ \E e \in 1..MaxEngines, mw \in EngineWorkers, chunks \in ChunkCounts :
           cap_start(e, mw, chunks)
    \/ \E e \in 1..MaxEngines : cap_launch(e)
    \/ \E e \in 1..MaxEngines : cap_connect_fail(e)
    \/ \E e \in 1..MaxEngines : cap_check(e)
    \/ \E e \in 1..MaxEngines : cap_finish(e)

SpecCap == CapInit /\ [][CapNext]_vars

(* the cap stored for the host, if any *)
HasCap == host_key \in DOMAIN _host_worker_caps

StoredCap == _host_worker_caps[host_key]

(* engine e starts a transfer in this step *)
CapStarted(e) == cEng[e].pc = "idle" /\ cEng'[e].pc = "launch"

(* C23: the cap stored for a host key never increases and is never below
   min_workers (2), whatever the transfers and however concurrent engine
   instances interleave; it is lowered only by halving an engine's current
   target worker count when connect_failures >= degrade_after_failures (2)
   while target_workers > min_workers; and every transfer that starts later
   starts with at most that many workers. *)
C23_HostCap ==
    /\ [](HasCap => StoredCap >= 2)
    /\ [][/\ HasCap => (HasCap' /\ StoredCap' <= StoredCap)
          /\ _host_worker_caps' # _host_worker_caps =>
                \E e \in DOMAIN cEng :
                    /\ cEng[e].connect_failures >= 2
                    /\ cEng[e].target_workers > 2
                    /\ cEng'[e].target_workers = StoredCap'
                    /\ StoredCap' = IF cEng[e].target_workers \div 2 > 2
                                    THEN cEng[e].target_workers \div 2 ELSE 2
          /\ \A e \in DOMAIN cEng :
                (CapStarted(e) /\ HasCap) => cEng'[e].target_workers <= StoredCap]_vars

(* C23 witness: the cap was lowered and lowered again below its first value,
   and a transfer that started afterwards runs with no more workers than it. *)
C23_Witness ==
    /\ HasCap /\ StoredCap < MaxEngineWorkers \div 2
    /\ \E e \in DOMAIN cEng :
          /\ cEng[e].pc = "wait"
          /\ cEng[e].connect_failures = 0
          /\ cEng[e].max_workers > StoredCap
          /\ cEng[e].launched_workers = StoredCap


----------------------------------------------------------------------------
(* TaskScheduler with several tasks: the queue between add_task / resume_task /
   restart_task and the dispatcher, and the dispatcher's hand-off to the pool.
   Every task is a mkdir. *)

MaxFifoTasks == 2     \* task ids 1..MaxFifoTasks

FifoIds == 1..MaxFifoTasks

FifoInit ==
    /\ running = FALSE
    /\ tasks = <<>>
    /\ task_queue = <<>>
    /\ queued_task_ids = {}
    /\ popped = 0
    /\ dpc = "get"
    /\ execs = <<>>
    /\ nruns = 0
    /\ dstSize = [t \in FifoIds |-> 0]
    /\ dstFiles = [t \in FifoIds |-> {}]
    /\ ret = NoRet
    /\ PathIdle /\ EngIdle /\ ParIdle /\ MetIdle /\ StoreIdle /\ CapIdle /\ TsIdle /\ CkIdle /\ ProgIdle /\ HistIdle

FifoNext ==
    \/ Start
    \/ \E t \in FifoIds : AddTask(t, <<"mkdir", "sftp">>, 0)
    \/ \E t \in FifoIds : ReAddTask(t)
    \/ \E t \in FifoIds : CancelTask(t)
    \/ \E t \in FifoIds : PauseTask(t)
    \/ \E t \in FifoIds : ResumeTask(t)
    \/ \E t \in FifoIds : RestartTask(t)
    \/ DispatchPop
    \/ DispatchDiscard
    \/ DispatchCheck
    \/ \E i \in 1..MaxRuns : ExecStart(i)
    \/ \E i \in 1..MaxRuns : ExecBegin(i)
    \/ \E i \in 1..MaxRuns : SimpleOp(i)
    \/ \E i \in 1..MaxRuns, code \in ErrorCodes : ExecFail(i, code)
    \/ \E i \in 1..MaxRuns : ExecReturn(i)
    \/ \E i \in 1..MaxRuns : ExecRecord(i)

SpecFifo == FifoInit /\ [][FifoNext]_vars

(* the dispatcher removed an id from the queue *)
Got == Len(task_queue') < Len(task_queue)

(* an execution was handed to the pool *)
Submitted == nruns' # nruns

(* the queue changes only by an append at the tail or the removal of its head *)
QueueOrderKept ==
    \/ task_queue' = task_queue
    \/ task_queue # <<>> /\ task_queue' = Tail(task_queue)
    \/ \E t \in FifoIds : task_queue' = Append(task_queue, t)

(* the dispatcher takes the oldest id, and only when it holds none *)
GetsOldest == Got => popped = 0 /\ popped' = Head(task_queue)

(* what is handed to the pool is the id the dispatcher holds, found pending,
   and it goes behind every execution already waiting in the pool *)
SubmitsHeld ==
    Submitted => /\ popped # 0
                 /\ Known(popped) /\ tasks[popped].status = "pending"
                 /\ execs' = Append(execs, NewExec(popped))
                 /\ nruns' = nruns + 1

(* the dispatcher lets go of a pending id only by handing it to the pool *)
PendingNotDropped ==
    popped # 0 /\ popped' # popped /\ Known(popped) /\ tasks[popped].status = "pending"
        => Submitted /\ popped' = 0

(* C24: tasks reach the worker pool in the order their ids were enqueued: the
   queue is only appended to at its tail and popped at its head, the
   dispatcher holds one popped id at a time and hands it to the pool, if the
   task is pending, before it pops the next; the pool keeps submission order *)
C24_FifoHandOff ==
    [][QueueOrderKept /\ GetsOldest /\ SubmitsHeld /\ PendingNotDropped]_vars

(* two different ids were enqueued one after the other, the first has been
   handed to the pool and the second has just followed it *)
C24_Witness ==
    /\ Len(execs) = 2
    /\ execs[1].id # execs[2].id
    /\ execs[1].pc = "submitted" /\ execs[2].pc = "submitted"
    /\ dpc = "get" /\ popped = 0


----------------------------------------------------------------------------
(* SftpEngine.remove_dir_recursive *)

(* remove_dir_recursive was called on a connected engine in this step *)
RecursiveDeleteStep ==
    EngineOpStep /\ eConnected /\ eCall'[1] = "remove_dir_recursive"

(* the safety gate or the sandbox refuses the path *)
Refused(path) ==
    \/ normalize_remote_path(path) = <<"/">>
    \/ normalize_remote_path(path) = eRoot
    \/ ~ensure_in_sandbox(path, eRoot)

(* C25: remove_dir_recursive on a connected engine raises and issues no
   command on the exec channel when its path normalizes to "/" or to
   remote_root or lies outside the sandbox; for any other path it issues
   exactly rm -rf '<normalized path>' and succeeds if and only if the exit
   status is 0, raising otherwise. *)
C25_RecursiveDelete ==
    [][RecursiveDeleteStep =>
          IF Refused(eCall'[2][1])
          THEN eOutcome' # "ok" /\ eWire' = <<>>
          ELSE /\ Len(eWire') = 2
               /\ eWire'[1] = WireCall("exec_command",
                                       <<rm_rf(normalize_remote_path(eCall'[2][1]))>>)
               /\ eWire'[2].fn = "recv_exit_status"
               /\ (eOutcome' = "ok") = (eWire'[2].args[1] = 0)]_vars

(* a directory below remote_root was deleted with rm -rf and exit status 0 *)
C25_Witness ==
    /\ eConnected
    /\ eCall # <<>> /\ eCall[1] = "remove_dir_recursive"
    /\ eRoot = <<"/", "a">>
    /\ eCall[2][1] = <<"/", "a", "/", "a">>
    /\ eWire # <<>> /\ eWire[1].args[1] = rm_rf(<<"/", "a", "/", "a">>)
    /\ eOutcome = "ok"


----------------------------------------------------------------------------
(* SiteStore.load (services/site_store.py), on files save wrote and on files
   written by hand *)

(* what json.loads makes of a JSON value *)
python_value(j) == IF j.t = "null" THEN None ELSE j.v

(* item.get(key, default) *)
get(obj, key, default) == IF key \in DOMAIN obj THEN python_value(obj[key]) ELSE default

(* the SiteConfig built from one object, remote_root kept as stored *)
SiteFromItem_KeepsEmptyRoot(obj) ==
    [name |-> python_value(obj["name"]),
     host |-> python_value(obj["host"]),
     port |-> get(obj, "port", 22),
     username |-> python_value(obj["username"]),
     auth_method |-> get(obj, "auth_method", "password"),
     remote_root |-> get(obj, "remote_root", "/"),
     password |-> None,
     key_path |-> get(obj, "key_path", None),
     key_passphrase |-> None,
     mscp_path |-> None,
     proxy_jump |-> get(obj, "proxy_jump", None),
     ssh_config_path |-> get(obj, "ssh_config_path", None),
     ssh_options |-> get(obj, "ssh_options", <<>>)]

(* the SiteConfig load builds from one object of the document *)
SiteFromItem(obj) ==
    [name |-> python_value(obj["name"]),
     host |-> python_value(obj["host"]),
     port |-> get(obj, "port", 22),
     username |-> python_value(obj["username"]),
     auth_method |-> get(obj, "auth_method", "password"),
     remote_root |-> IF get(obj, "remote_root", "/") \in {None, ""}
                     THEN "/" ELSE get(obj, "remote_root", "/"),
     password |-> None,
     key_path |-> get(obj, "key_path", None),
     key_passphrase |-> None,
     mscp_path |-> None,
     proxy_jump |-> get(obj, "proxy_jump", None),
     ssh_config_path |-> get(obj, "ssh_config_path", None),
     ssh_options |-> get(obj, "ssh_options", <<>>)]

(* building the SiteConfig raises: a required key is missing (KeyError) or
   __post_init__ rejects auth_method or port (ValueError) *)
ItemRaises(obj) ==
    \/ ~({"name", "host", "username"} \subseteq DOMAIN obj)
    \/ get(obj, "auth_method", "password") \notin {"password", "key"}
    \/ get(obj, "port", 22) <= 0
    \/ get(obj, "port", 22) > 65535

(* load: [] when there is no file or anything raises, else one SiteConfig per
   object, in order *)
load(file) ==
    IF ~file.exists THEN <<>>
    ELSE IF \E k \in DOMAIN file.data : ItemRaises(file.data[k]) THEN <<>>
    ELSE [k \in DOMAIN file.data |-> SiteFromItem(file.data[k])]

Without(obj, keys) == [f \in DOMAIN obj \ keys |-> obj[f]]

Str(s) == [t |-> "str", v |-> s]

(* objects of hand-written files: the one of test_site_store.py (remote_root
   ""), and variants of it *)
DemoObject ==
    [name |-> Str("demo"), host |-> Str("example.com"), port |-> [t |-> "num", v |-> 22],
     username |-> Str("alice"), auth_method |-> Str("password"), remote_root |-> Str("")]

StoredObjects ==
    {DemoObject,
     Without(DemoObject, {"remote_root"}),
     [DemoObject EXCEPT !.remote_root = JsonNull],
     [DemoObject EXCEPT !.remote_root = Str("/work")],
     Without(DemoObject, {"port", "auth_method"}),
     Without(DemoObject, {"name"}),
     [DemoObject EXCEPT !.port = [t |-> "num", v |-> 0]]}

(* the SiteConfig objects saved and loaded back: with and without secrets,
   remote_root absolute or empty *)
LoadSiteConfig ==
    [name : {"demo"}, host : {"h1"}, port : {22}, username : {"alice"},
     auth_method : {"password", "key"}, remote_root : {"/work", ""},
     password : {None, "pw1"}, key_path : {None, "id_rsa"},
     key_passphrase : {None, "pp1"}, mscp_path : {None},
     proxy_jump : {None}, ssh_config_path : {None}, ssh_options : {<<>>}]

StoredDocs == UNION {[1..n -> StoredObjects] : n \in 0..MaxSites}

(* either a list to save and no file yet, or a file written by hand *)
LoadInit ==
    /\ SchedInit /\ PathIdle /\ EngIdle /\ ParIdle /\ MetIdle /\ CapIdle /\ TsIdle /\ CkIdle /\ ProgIdle /\ HistIdle
    /\ sLoaded = NotLoaded
    /\ \/ sSites \in UNION {[1..n -> LoadSiteConfig] : n \in 0..MaxSites} /\ sFile = NoFile
       \/ sSites = <<>> /\ sFile \in {[exists |-> TRUE, data |-> d] : d \in StoredDocs}

SiteStoreLoad ==
    /\ sLoaded' = [called |-> TRUE, sites |-> load(sFile)]
    /\ UNCHANGED <<sSites, sFile, schedVars, pathVars, engVars, parVars, metVars, capVars, tsVars, ckVars, progVars, histVars>>

LoadNext == SiteStoreSave \/ SiteStoreLoad

SpecStoreLoad == LoadInit /\ [][LoadNext]_vars

(* load returned in this step *)
Loads == sLoaded'.called /\ sLoaded' # sLoaded

(* the file holds what save wrote for sSites *)
SavedFile == sFile.exists /\ sFile.data = json_dumps(save(sSites))

(* the remote_root values drawn that are absolute paths *)
ValidSite(site) == site.remote_root \in {"/", "/work"}

RootEmptyOrMissing(obj) ==
    \/ "remote_root" \notin DOMAIN obj
    \/ obj["remote_root"] = Str("")

(* C26: save followed by load, for a list of valid SiteConfig records
   (remote_root an absolute path), returns a list of the same length and
   order whose records equal the originals on every persisted field and have
   password and key_passphrase None; an object whose remote_root is empty or
   missing loads with remote_root "/". *)
C26_SaveLoadRoundTrip ==
    [][Loads =>
          /\ (SavedFile /\ \A k \in DOMAIN sSites : ValidSite(sSites[k])) =>
                /\ Len(sLoaded'.sites) = Len(sSites)
                /\ \A k \in DOMAIN sSites :
                      /\ \A f \in Range(_PERSIST_FIELDS) : sLoaded'.sites[k][f] = sSites[k][f]
                      /\ sLoaded'.sites[k].password = None
                      /\ sLoaded'.sites[k].key_passphrase = None
          /\ (sFile.exists /\ Len(sLoaded'.sites) = Len(sFile.data)) =>
                \A k \in DOMAIN sFile.data :
                    RootEmptyOrMissing(sFile.data[k]) => sLoaded'.sites[k].remote_root = "/"]_vars

(* two valid sites, one with a password and one with a key passphrase, were
   saved and loaded back *)
C26_Witness ==
    /\ sLoaded.called /\ SavedFile
    /\ Len(sSites) = MaxSites /\ Len(sLoaded.sites) = MaxSites
    /\ \A k \in DOMAIN sSites : ValidSite(sSites[k])
    /\ \E k \in DOMAIN sSites : sSites[k].password # None
    /\ \E k \in DOMAIN sSites : sSites[k].key_passphrase # None


----------------------------------------------------------------------------
(* task_state.is_valid_transition / assert_transition (core/task_state.py)
   applied to every pair of states, known and unknown *)

StateNames == Statuses \cup {"unknown"}

TsInit ==
    /\ SchedInit /\ PathIdle /\ EngIdle /\ ParIdle /\ MetIdle /\ StoreIdle /\ CapIdle /\ CkIdle /\ ProgIdle /\ HistIdle
    /\ tCurrent \in StateNames
    /\ tTarget \in StateNames
    /\ tOp = "none" /\ tOut = "none"

TsFrame ==
    UNCHANGED <<tCurrent, tTarget, schedVars, pathVars, engVars, parVars, metVars,
                storeVars, capVars, ckVars, progVars, histVars>>

IsValidTransition ==
    /\ tOp = "none"
    /\ tOp' = "is_valid_transition"
    /\ tOut' = IF is_valid_transition(tCurrent, tTarget) THEN "True" ELSE "False"
    /\ TsFrame

AssertTransition ==
    /\ tOp = "none"
    /\ tOp' = "assert_transition"
    /\ tOut' = IF ~is_valid_transition(tCurrent, tTarget) THEN "ValueError" ELSE "None"
    /\ TsFrame

TsNext == IsValidTransition \/ AssertTransition

SpecTaskState == TsInit /\ [][TsNext]_vars

(* the legal-transition table of the state machine *)
LegalPairs ==
    {<<"pending", "running">>, <<"pending", "canceled">>,
     <<"running", "done">>, <<"running", "failed">>, <<"running", "paused">>,
     <<"running", "canceled">>, <<"running", "skipped">>,
     <<"paused", "running">>, <<"paused", "canceled">>}

(* C27: is_valid_transition(current, target) is true exactly for the pairs of
   the legal-transition table (pending to running or canceled; running to
   done, failed, paused, canceled or skipped; paused to running or canceled)
   and false for every other pair; assert_transition raises exactly when
   is_valid_transition is false. *)
C27_TransitionTable ==
    /\ tOp = "is_valid_transition" =>
          (tOut = "True") = (<<tCurrent, tTarget>> \in LegalPairs)
    /\ tOp = "is_valid_transition" => tOut \in {"True", "False"}
    /\ tOp = "assert_transition" =>
          (tOut = "ValueError") = ~is_valid_transition(tCurrent, tTarget)


----------------------------------------------------------------------------
(* MainWindow.clear_finished_tasks (ui/main_window.py) on the scheduler's task
   map, with Task.is_finished (shared/models.py) *)

MaxClearTasks == 3    \* task ids 1..MaxClearTasks

ClearIds == 1..MaxClearTasks

(* Task.is_finished *)
is_finished(r) == r.status \in {"done", "failed", "canceled"}

(* the maps the operation can find: every id absent, or holding a task in any
   status *)
TaskMaps ==
    UNION {[ids -> {[NewTask("upload", "sftp") EXCEPT !.status = st] : st \in Statuses}] :
              ids \in SUBSET ClearIds}

ClearInit ==
    /\ running = TRUE
    /\ tasks \in TaskMaps
    /\ task_queue = <<>>
    /\ queued_task_ids = {}
    /\ popped = 0
    /\ dpc = "get"
    /\ execs = <<>>
    /\ nruns = 0
    /\ dstSize = [t \in ClearIds |-> 0]
    /\ dstFiles = [t \in ClearIds |-> {}]
    /\ ret = NoRet
    /\ PathIdle /\ EngIdle /\ ParIdle /\ MetIdle /\ StoreIdle /\ CapIdle /\ TsIdle /\ CkIdle /\ ProgIdle /\ HistIdle

(* with scheduler.task_lock: delete every task that is_finished; the log line
   carries how many were deleted *)
clear_finished_tasks ==
    /\ tasks' = [t \in {x \in DOMAIN tasks : ~is_finished(tasks[x])} |-> tasks[t]]
    /\ ret' = Ret("clear", Cardinality({x \in DOMAIN tasks : is_finished(tasks[x])}), TRUE)
    /\ UNCHANGED <<running, task_queue, queued_task_ids, popped, dpc, execs, nruns,
                   dstSize, dstFiles>>
    /\ NotSched /\ NoRecord

ClearNext == clear_finished_tasks

SpecClear == ClearInit /\ [][ClearNext]_vars

(* C28: clear-finished removes from the task map exactly the tasks whose
   status is done, failed, canceled or skipped and leaves every pending,
   running and paused task in the map, unchanged. *)
C28_ClearFinished ==
    [][/\ DOMAIN tasks' = {t \in DOMAIN tasks : tasks[t].status \notin TerminalStatuses}
       /\ \A t \in DOMAIN tasks' : tasks'[t] = tasks[t]]_vars


----------------------------------------------------------------------------
(* C29: restart_task on a task that is pending, running or paused, or on an
   unknown id, returns False and leaves the task map (status, progress fields,
   flags), the queue and the queued set unchanged. *)
C29_RestartRefused ==
    [][\A t \in TaskIds :
          (/\ ret'.op = "restart" /\ ret'.id = t
           /\ ~Known(t) \/ tasks[t].status \in {"pending", "running", "paused"}) =>
              /\ ~ret'.ok
              /\ tasks' = tasks
              /\ task_queue' = task_queue
              /\ queued_task_ids' = queued_task_ids]_vars

(* restart_task was refused on a paused task *)
C29_Witness ==
    /\ ret.op = "restart" /\ ~ret.ok
    /\ Known(ret.id)
    /\ tasks[ret.id].status = "paused"


----------------------------------------------------------------------------
(* ConnectionChecker._check_remote_root_readable
   (services/connection_checker.py) against an engine whose connect and whose
   check_path_readable may raise *)

MaxChecks == 5        \* calls of the method in one behaviour

check_root == "/tmp"  \* site_config.remote_root

Exceptions == {"boom", "timeout"}

CkInit ==
    /\ SchedInit /\ PathIdle /\ EngIdle /\ ParIdle /\ MetIdle /\ StoreIdle /\ CapIdle /\ TsIdle /\ ProgIdle /\ HistIdle
    /\ CkIdle

CkFrame ==
    UNCHANGED <<schedVars, pathVars, engVars, parVars, metVars, storeVars, capVars, tsVars, progVars, histVars>>

(* except Exception as e: the result of the failed check *)
ErrorResult(e) == [passed |-> FALSE, message |-> <<"Error checking readability: ", e>>]

(* engine = SftpEngine(self.site_config); engine.connect() *)
check_connect ==
    /\ kPc \in {"idle", "returned"}
    /\ kRuns < MaxChecks
    /\ kRuns' = kRuns + 1
    /\ kProbe' = "none"
    /\ \E outcome \in {"ok"} \cup Exceptions :
          IF outcome = "ok"
          THEN /\ kPc' = "connected"
               /\ kEvents' = <<"connect">>
               /\ kOpen' = kOpen + 1
               /\ kResult' = NoResult
          ELSE /\ kPc' = "returned"
               /\ kEvents' = <<>>
               /\ kResult' = ErrorResult(outcome)
               /\ UNCHANGED kOpen
    /\ CkFrame

(* is_readable = engine.check_path_readable(remote_root); an exception goes to
   except Exception, which returns *)
check_probe ==
    /\ kPc = "connected"
    /\ \E outcome \in {"True", "False"} \cup Exceptions :
          /\ kProbe' = outcome
          /\ IF outcome \in Exceptions
             THEN kPc' = "returned" /\ kResult' = ErrorResult(outcome)
             ELSE kPc' = "probed" /\ UNCHANGED kResult
    /\ UNCHANGED <<kEvents, kOpen, kRuns>>
    /\ CkFrame

(* engine.disconnect() *)
check_disconnect ==
    /\ kPc = "probed"
    /\ kPc' = "closed"
    /\ kEvents' = Append(kEvents, "disconnect")
    /\ kOpen' = kOpen - 1
    /\ UNCHANGED <<kProbe, kResult, kRuns>>
    /\ CkFrame

(* return CheckResult(...) *)
check_return ==
    /\ kPc = "closed"
    /\ kPc' = "returned"
    /\ kResult' = IF kProbe = "True"
                  THEN [passed |-> TRUE, message |-> <<"Can read ", check_root>>]
                  ELSE [passed |-> FALSE, message |-> <<"Cannot read ", check_root>>]
    /\ UNCHANGED <<kEvents, kProbe, kOpen, kRuns>>
    /\ CkFrame

CkNext == check_connect \/ check_probe \/ check_disconnect \/ check_return

SpecChecker == CkInit /\ [][CkNext]_vars

(* C30: when the readability check has returned, the session it opened has
   been closed (opened once, closed once) on every path, and when the probe
   raised the result has passed = False and the error text in its message. *)
C30_SessionReleased ==
    kPc = "returned" =>
        /\ kEvents # <<>> => kEvents = <<"connect", "disconnect">>
        /\ kProbe \in Exceptions =>
              /\ ~kResult.passed
              /\ kResult.message[2] = kProbe


----------------------------------------------------------------------------
(* a worker entered _execute_task for execution i in this step *)
Begins(i) ==
    /\ i \in DOMAIN execs /\ Len(execs') = Len(execs)
    /\ execs[i].pc = "submitted" /\ execs'[i].pc = "begin"

(* C31: a worker sets a task running only if its status is pending at that
   moment, and a canceled task stays canceled until restart_task resets it:
   a task canceled while its execution waits in the pool is never executed. *)
C31_StartsOnlyPending ==
    [][/\ \A i \in 1..MaxRuns : Begins(i) => tasks[execs[i].id].status = "pending"
       /\ \A t \in TaskIds :
             (Known(t) /\ tasks[t].status = "canceled" /\ tasks'[t].status # "canceled")
                 => (ret'.op = "restart" /\ ret'.id = t /\ ret'.ok)]_vars


----------------------------------------------------------------------------
(* C32: every task id occurs at most once in the queue, in every reachable
   state; add_task with an id that is in the queued set stores the task in
   the map and leaves the queue as it is. *)
C32_QueuedOnce ==
    /\ [](\A t \in TaskIds : QueueCount(t) <= 1)
    /\ [][\A t \in TaskIds :
             (ret'.op = "add" /\ ret'.id = t /\ t \in queued_task_ids) =>
                 /\ t \in DOMAIN tasks'
                 /\ task_queue' = task_queue
                 /\ queued_task_ids' = queued_task_ids]_vars

(* add_task returned for a task that has an execution in the pool, and its id
   is in the queue once *)
C32_Witness ==
    /\ ret.op = "add"
    /\ QueueCount(ret.id) = 1
    /\ \E i \in DOMAIN execs : execs[i].id = ret.id


----------------------------------------------------------------------------
(* the executions of task t submitted to the pool that have not returned *)
InProgress(t) == {i \in DOMAIN execs : execs[i].id = t}

(* C33: at any time at most one execution of a given task id is in progress
   (submitted to the pool and not yet returned). *)
C33_OneExecution == \A t \in TaskIds : Cardinality(InProgress(t)) <= 1


-----------------------------------------------------------------------------
(* C34: the values the progress callback of a parallel transfer receives, in
   the order of the calls, never decrease and never exceed the file size, and
   a chunked transfer that returns with a callback supplied has reported the
   file size. *)
NonDecreasing(s) == \A i, j \in DOMAIN s : i < j => s[i] <= s[j]

C34_ProgressMonotonic ==
    /\ NonDecreasing(xReported)
    /\ \A i \in DOMAIN xReported : xReported[i] <= xSize
    /\ (xResult = "returned" /\ xCallback /\ xSize >= chunk_size)
            => \E i \in DOMAIN xReported : xReported[i] = xSize


-----------------------------------------------------------------------------
(* The parallel transfer under fair scheduling: the calling thread and every
   worker thread that can take a step eventually takes one; interrupt requests
   come from outside and need not happen. *)
main_thread == par_small_file \/ par_prepare_fail \/ par_prepare \/ par_finish

worker_thread(w) ==
    \/ \E outcome \in {"ok", "connect_failed", "open_failed"} : worker_connect(w, outcome)
    \/ worker_get(w)
    \/ worker_poll(w)
    \/ worker_transfer(w)
    \/ worker_report(w)
    \/ \E k \in 0..(chunk_size - 1) : worker_transfer_fail(w, k)

SpecParallelFair ==
    /\ ParInit /\ [][ParNext]_vars
    /\ WF_vars(main_thread)
    /\ \A w \in 1..ParWorkers : WF_vars(worker_thread(w))

AllExited == \A w \in DOMAIN xWorkers : xWorkers[w].pc = "exit"

StartsChunk(w) ==
    /\ w \in DOMAIN xWorkers /\ xWorkers[w].pc # "io" /\ xWorkers'[w].pc = "io"

(* C35: under fair scheduling every parallel transfer ends: all workers exit
   and the call returns or raises, also when chunks keep failing, when no
   worker connects and when an interrupt is requested; once the abort event is
   set no worker starts transferring another chunk. *)
C35_Terminates ==
    /\ <>[](xPhase = "finished" /\ xResult # "idle" /\ AllExited)
    /\ [][\A w \in 1..ParWorkers : interrupt_event => ~StartsChunk(w)]_vars

C35_Witness ==
    /\ xPhase = "finished" /\ xWorkers # <<>> /\ AllExited
    /\ interrupt_event /\ last_error
    /\ \E o \in DOMAIN chunk_failures : chunk_failures[o] > max_chunk_retries


-----------------------------------------------------------------------------
ConnectFails(w) ==
    /\ w \in DOMAIN xWorkers /\ xWorkers[w].pc = "start" /\ xWorkers'[w].pc # "start"
    /\ connect_failures' # connect_failures

NoChunkExhausted == \A o \in DOMAIN chunk_failures : chunk_failures[o] <= max_chunk_retries

(* C36: a worker that exhausts its connect retries only increments
   connect_failures and exits; a transfer in which some worker connected, no
   chunk exhausted its retries and no interrupt was requested returns with
   every chunk transferred, however many other workers failed to connect. *)
C36_ConnectFailuresTolerated ==
    /\ []((xPhase = "finished" /\ xConnected # {} /\ NoChunkExhausted /\ ~xRequested)
            => /\ xResult = "returned"
               /\ completed_chunks = num_chunks(xSize)
               /\ bytes_transferred = xSize
               /\ xDest = SrcBytes(0, xSize))
    /\ [][\A w \in 1..ParWorkers :
            ConnectFails(w) =>
                /\ connect_failures' = connect_failures + 1
                /\ xWorkers' = SetWorker(w, "exit", NoChunk)
                /\ UNCHANGED <<xDest, chunk_queue, bytes_transferred, completed_chunks,
                               chunk_failures, interrupt_event, last_error, xResult>>]_vars

C36_Witness ==
    /\ xPhase = "finished" /\ xResult = "returned"
    /\ connect_failures >= 1 /\ xConnected # {}
    /\ completed_chunks = num_chunks(xSize) /\ completed_chunks >= 2


-----------------------------------------------------------------------------
(* MetricsCollector over long runs of record calls.  The record passed may
   differ from the one before only at the calls numbered in FreeAt; in between
   the caller repeats the last record. *)
MaxHistory == 102     \* record calls in one behaviour

FreeAt == {0, 3, MAX_RECORDS, MAX_RECORDS + 1}

HistInit ==
    /\ SchedInit /\ PathIdle /\ EngIdle /\ ParIdle /\ StoreIdle /\ CapIdle /\ TsIdle /\ CkIdle /\ ProgIdle
    /\ records = <<>> /\ mHistory = <<>>
    /\ current_preset \in Range(PRESET_ORDER)
    /\ now = COOLDOWN_SECONDS
    /\ last_preset_change \in {0, now}
    /\ mFile = NoMFile
    /\ mRet = NoMRet

HistFrame == UNCHANGED <<schedVars, pathVars, engVars, parVars, storeVars, capVars, tsVars, ckVars, progVars>>

(* record(TransferRecord(preset, ..., success, ...)) *)
HistRecord(preset, success) ==
    /\ Len(mHistory) < MaxHistory
    /\ \/ Len(mHistory) \in FreeAt
       \/ /\ mHistory # <<>>
          /\ TransferRecord(preset, success) = mHistory[Len(mHistory)]
    /\ Recorded(TransferRecord(preset, success))
    /\ mHistory' = Append(mHistory, TransferRecord(preset, success))
    /\ HistFrame

HistNext ==
    \/ Tick
    \/ \E p \in {current_preset, "sftp"}, success \in BOOLEAN : HistRecord(p, success)
    \/ get_recommended_preset

SpecHistory == HistInit /\ [][HistNext]_vars

(* C37: after any sequence of record calls the collector holds at most
   MAX_RECORDS records, and they are the most recently recorded ones in
   recording order: past the limit the oldest are the ones evicted. *)
C37_KeepsMostRecent ==
    /\ Len(records) <= MAX_RECORDS
    /\ records = LastN(mHistory, MAX_RECORDS)
    /\ MAX_RECORDS = 100

C37_Witness ==
    /\ Len(mHistory) = MAX_RECORDS + 2
    /\ Len(records) = MAX_RECORDS
    /\ mHistory[1] # mHistory[MAX_RECORDS + 1]
    /\ mHistory[MAX_RECORDS + 1] # mHistory[MAX_RECORDS + 2]


-----------------------------------------------------------------------------
(* C38: over any sequence of record and get_recommended_preset calls, a call
   that changes current_preset sets last_preset_change to the time of the
   call and is made at least COOLDOWN_SECONDS after the time held there, and
   no other step changes last_preset_change: two changes are at least 300 s
   apart and last_preset_change is the time of the most recent one, or its
   initial value. *)
C38_ChangesApart ==
    [][/\ (current_preset' # current_preset) =>
              /\ mRet'.op = "get"
              /\ now - last_preset_change >= COOLDOWN_SECONDS
              /\ now - last_preset_change >= 300
              /\ last_preset_change' = now
       /\ (current_preset' = current_preset) => last_preset_change' = last_preset_change]_vars

(* C38 witness: the preset went from low to medium and back to low, the
   second change one cooldown or more after the first. *)
C38_Witness ==
    /\ current_preset = "low" /\ mRet.op = "get" /\ mRet.val = "low"
    /\ last_preset_change = now /\ now >= 2 * COOLDOWN_SECONDS
    /\ \E i, j \in DOMAIN mHistory :
          i < j /\ mHistory[i].preset = "low" /\ mHistory[j].preset = "medium"


-----------------------------------------------------------------------------
(* the records of the current preset, and the SAMPLE_WINDOW most recent of them *)
OfCurrentPreset == SelectSeq(records, LAMBDA r : r.preset = current_preset)

Sample == LastN(OfCurrentPreset, SAMPLE_WINDOW)

(* C40: outside the cooldown get_recommended_preset decides on the success
   rate of the 10 most recent records among those of the current preset,
   however many records of other presets lie between them; with fewer than 3
   such records it returns current_preset and changes nothing. *)
C40_WindowPerPreset ==
    [][(GetCalled /\ records # <<>> /\ ~InCooldown(now, last_preset_change)) =>
          LET n == Len(Sample)
              sc == success_count(Sample)
              k == index(current_preset)
          IN  IF n < 3
              THEN /\ Returned(current_preset)
                   /\ UNCHANGED <<records, current_preset, last_preset_change, mFile>>
              ELSE IF BelowFailure(sc, n) /\ k > 1
              THEN current_preset' = Downgraded(k) /\ Returned(Downgraded(k))
              ELSE IF AtSuccess(sc, n) /\ k < Len(PRESET_ORDER)
              THEN current_preset' = Upgraded(k) /\ Returned(Upgraded(k))
              ELSE /\ Returned(current_preset)
                   /\ UNCHANGED <<records, current_preset, last_preset_change, mFile>>]_vars


-----------------------------------------------------------------------------
(* C39: for every folder upload or folder download task, in every reachable
   state, 0 <= subtask_done <= subtask_count, and a folder task that is done
   has subtask_done = subtask_count; also after pause and resume, or restart,
   and a new execution. *)
C39_SubtaskBounds ==
    \A t \in TaskIds :
        (Known(t) /\ tasks[t].kind \in FolderKinds) =>
            /\ 0 <= tasks[t].subtask_done
            /\ tasks[t].subtask_done <= tasks[t].subtask_count
            /\ tasks[t].status = "done" => tasks[t].subtask_done = tasks[t].subtask_count

====
